---- MODULE Spec2Model ----
(***************************************************************************)
(* OatWriter (src/src/oat_writer.cc): the offset-planning pass run by the  *)
(* constructor (InitOatHeader .. InitOatCodeDexFiles) and the writing pass *)
(* run by Write (WriteTables, WriteCode, WriteCodeDexFiles).               *)
(***************************************************************************)
EXTENDS Integers, Sequences, FiniteSets, TLC

\* ------------------------------------------------------------------------
\* Bounds of the explored inputs
\* ------------------------------------------------------------------------

\* Size of the DEX list: one unit per DEX file, per class-def and per method.
\* the latest stream operation that is made to fail
MaxFailAt == 20
MaxInputSize == 4

\* ------------------------------------------------------------------------
\* Program constants
\* ------------------------------------------------------------------------

kPageSize == 4096
kArmAlignment == 16
kStackAlignment == 16
\* sizeof(*oat_header_)
SizeOfOatHeader == 36
\* sizeof(uint32_t): code_size, invoke_stub_size, status_, the OatDexFile words
SizeOfU32 == 4
\* sizeof(method_offsets_[0]): eight uint32_t fields
SizeOfOatMethodOffsets == 32
\* Class::Status values used by InitOatClasses
kStatusError == -1
kStatusNotReady == 0
kStatusVerified == 7

NULL == [null |-> TRUE]

RoundUp(x, n) == ((x + n - 1) \div n) * n

\* CompiledMethod::AlignCode(offset) and AlignCode(offset, instruction_set)
AlignCode(off) == RoundUp(off, kArmAlignment)

\* ------------------------------------------------------------------------
\* The compiler's results: compiled methods by method index, invoke stubs by
\* (is_static, shorty).  A blob is named by the identity of its vector (id)
\* and carries its byte size; table id 0 names no vector of its own but the
\* method's empty table, keyed per method below.
\* ------------------------------------------------------------------------

MethodIdxs == 0 .. 5

Blob(id, size) == [id |-> id, size |-> size]

\* An empty table is a vector of its own in each CompiledMethod.
EmptyTable(method_idx) == Blob(100 + method_idx, 0)

CompiledMethods ==
  [m \in MethodIdxs |->
     CASE m = 0 -> NULL
       [] m = 1 -> [code |-> Blob(1, 8), code_delta |-> 0,
                    frame_size_in_bytes |-> 32, core_spill_mask |-> 3, fp_spill_mask |-> 0,
                    mapping_table |-> EmptyTable(1), vmap_table |-> EmptyTable(1),
                    gc_map |-> EmptyTable(1)]
       [] m = 2 -> [code |-> Blob(1, 8), code_delta |-> 1,
                    frame_size_in_bytes |-> 48, core_spill_mask |-> 5, fp_spill_mask |-> 1,
                    mapping_table |-> Blob(1, 8), vmap_table |-> Blob(1, 2),
                    gc_map |-> Blob(1, 3)]
       [] m = 3 -> [code |-> Blob(2, 13), code_delta |-> 1,
                    frame_size_in_bytes |-> 64, core_spill_mask |-> 7, fp_spill_mask |-> 0,
                    mapping_table |-> Blob(1, 8), vmap_table |-> EmptyTable(3),
                    gc_map |-> Blob(2, 5)]
       [] m = 4 -> [code |-> Blob(2, 13), code_delta |-> 1,
                    frame_size_in_bytes |-> 64, core_spill_mask |-> 7, fp_spill_mask |-> 0,
                    mapping_table |-> Blob(2, 4), vmap_table |-> Blob(1, 2),
                    gc_map |-> Blob(1, 3)]
       [] m = 5 -> NULL]

GetCompiledMethod(method_idx) == CompiledMethods[method_idx]

\* dex_file->GetMethodShorty(dex_file->GetMethodId(method_idx))
GetMethodShorty(method_idx) ==
  CASE method_idx \in {0, 1, 3} -> "V"
    [] method_idx \in {2, 5} -> "I"
    [] OTHER -> "L"

\* it.GetMemberAccessFlags() & kAccStatic
AccStatic(method_idx) == method_idx \in {1, 4, 5}

FindInvokeStub(is_static, shorty) ==
  CASE is_static /\ shorty = "V" -> [code |-> Blob(11, 6), code_delta |-> 0]
    [] ~is_static /\ shorty = "V" -> [code |-> Blob(12, 10), code_delta |-> 1]
    [] ~is_static /\ shorty = "I" -> [code |-> Blob(13, 16), code_delta |-> 0]
    [] OTHER -> NULL

\* ------------------------------------------------------------------------
\* The inputs: the DEX list, drawn by size
\* ------------------------------------------------------------------------

ImageFileLocationSizes == {0, 7}

\* (location size, file size) of a DEX file
DexFileKinds == {<<5, 112>>, <<8, 114>>}

\* Class-defs of exactly the given size: a class without class data, or a
\* class with size - 1 methods, direct methods first.
ClassDefsOfSize(n) ==
  (IF n = 1 THEN {[has_data |-> FALSE, direct |-> <<>>, virtual |-> <<>>]} ELSE {})
  \cup
  {[has_data |-> TRUE, direct |-> SubSeq(ms, 1, d), virtual |-> SubSeq(ms, d + 1, n - 1)] :
     ms \in [1 .. (n - 1) -> MethodIdxs], d \in 0 .. (n - 1)}

RECURSIVE ClassDefSeqsOfSize(_)
ClassDefSeqsOfSize(n) ==
  IF n = 0 THEN {<<>>}
  ELSE UNION {{<<c>> \o rest : c \in ClassDefsOfSize(k), rest \in ClassDefSeqsOfSize(n - k)} :
                k \in 1 .. n}

DexFilesOfSize(n) ==
  {[location_size |-> kind[1], file_size |-> kind[2], class_defs |-> cs] :
     kind \in DexFileKinds, cs \in ClassDefSeqsOfSize(n - 1)}

RECURSIVE DexFileSeqsOfSize(_)
DexFileSeqsOfSize(n) ==
  IF n = 0 THEN {<<>>}
  ELSE UNION {{<<d>> \o rest : d \in DexFilesOfSize(k), rest \in DexFileSeqsOfSize(n - k)} :
                k \in 1 .. n}

DexFileLists == UNION {DexFileSeqsOfSize(n) : n \in 0 .. MaxInputSize}


\* ------------------------------------------------------------------------
\* State
\* ------------------------------------------------------------------------

VARIABLES
  dex_files,                          \* *dex_files_ (input)
  image_file_location_size,           \* image_file_location_.size() (input)
  fail_at,                            \* the stream operation that fails, 0 for none (input)
  is_image,                           \* compiler_->IsImage() (input)
  pc,                                 \* position in OatWriter::Create
  offset,                             \* the constructor's cursor
  oat_header,                         \* *oat_header_: executable offset and checksum
  oat_dex_files,                      \* oat_dex_files_
  oat_classes,                        \* oat_classes_
  executable_offset_padding_length,   \* executable_offset_padding_length_
  code_offsets,                       \* code_offsets_
  mapping_table_offsets,              \* mapping_table_offsets_
  vmap_table_offsets,                 \* vmap_table_offsets_
  gc_map_offsets,                     \* gc_map_offsets_
  i, class_def_index, oat_class_index, class_def_method_index,  \* loop variables
  out,                                \* the output stream
  code_offset,                        \* Write's code_offset
  dchecks,                            \* no DCHECK of the writing pass has failed so far
  plan,                               \* history: where the planning pass placed each item
  methods,                            \* the runtime's method records, by method index
  run,                                \* which call of Create this is
  first_run,                          \* history: what the first call of Create left behind
  visits                              \* history: the calls of InitOatCodeMethod and WriteCodeMethod

inputs == <<dex_files, image_file_location_size, fail_at, is_image>>
records == <<oat_header, oat_dex_files, oat_classes, executable_offset_padding_length>>
tables == <<code_offsets, mapping_table_offsets, vmap_table_offsets, gc_map_offsets>>
loop == <<i, class_def_index, oat_class_index, class_def_method_index>>
stream == <<out, code_offset, dchecks>>
earlier == <<run, first_run>>
vars == <<inputs, pc, offset, records, tables, loop, stream, plan, methods, earlier, visits>>

\* ------------------------------------------------------------------------
\* DEX file accessors
\* ------------------------------------------------------------------------

NumClassDefs(dex_file) == Len(dex_file.class_defs)
GetClassDef(dex_file, idx) == dex_file.class_defs[idx + 1]
\* ClassDataItemIterator: the methods of a class, direct methods first
NumDirectMethods(class_def) == Len(class_def.direct)
NumVirtualMethods(class_def) == Len(class_def.virtual)
ClassMethods(class_def) == class_def.direct \o class_def.virtual
GetLocationChecksum(dex_file) == 1000 + dex_file.file_size

\* an item of the checksum, of the stream or of the plan
\* (at: the class ordinal and method index of the method it belongs to, if any)
ItemAt(kind, idx, len, val, at) ==
  [kind |-> kind, idx |-> idx, len |-> len, val |-> val, at |-> at]
NoMethod == <<-1, -1>>
Item(kind, idx, len, val) == ItemAt(kind, idx, len, val, NoMethod)

\* OatHeader::UpdateChecksum: the checksum is the sequence of ranges folded so far
UpdateChecksumAt(header, kind, idx, len, val, at) ==
  [header EXCEPT !.adler32_checksum = Append(@, ItemAt(kind, idx, len, val, at))]
UpdateChecksum(header, kind, idx, len, val) ==
  UpdateChecksumAt(header, kind, idx, len, val, NoMethod)

\* ------------------------------------------------------------------------
\* OatDexFile and OatClass records
\* ------------------------------------------------------------------------

OatDexFileCtor(dex_file) ==
  [dex_file_location_size |-> dex_file.location_size,
   dex_file_location_data |-> dex_file.location_size,
   dex_file_location_checksum |-> GetLocationChecksum(dex_file),
   dex_file_offset |-> 0,
   methods_offsets |-> [c \in 1 .. NumClassDefs(dex_file) |-> 0]]

OatDexFileSizeOf(r) ==
  SizeOfU32 + r.dex_file_location_size + SizeOfU32 + SizeOfU32
    + SizeOfU32 * Len(r.methods_offsets)

\* the five ranges of an OatDexFile, in the order UpdateChecksum folds them
OatDexFileUpdateChecksum(header, r, idx) ==
  LET h1 == UpdateChecksum(header, "dex_file_location_size", idx, SizeOfU32,
                           <<r.dex_file_location_size>>)
      h2 == UpdateChecksum(h1, "dex_file_location_data", idx, r.dex_file_location_size,
                           <<r.dex_file_location_data>>)
      h3 == UpdateChecksum(h2, "dex_file_location_checksum", idx, SizeOfU32,
                           <<r.dex_file_location_checksum>>)
      h4 == UpdateChecksum(h3, "dex_file_offset", idx, SizeOfU32, <<r.dex_file_offset>>)
  IN  UpdateChecksum(h4, "methods_offsets", idx, SizeOfU32 * Len(r.methods_offsets),
                     r.methods_offsets)

\* OatMethodOffsets as its eight words
OatMethodOffsets(code, frame, core, fp, mapping, vmap, gc, stub) ==
  [code_offset |-> code, frame_size_in_bytes |-> frame, core_spill_mask |-> core,
   fp_spill_mask |-> fp, mapping_table_offset |-> mapping, vmap_table_offset |-> vmap,
   gc_map_offset |-> gc, invoke_stub_offset |-> stub]

MethodOffsetsWords(m) ==
  <<m.code_offset, m.frame_size_in_bytes, m.core_spill_mask, m.fp_spill_mask,
    m.mapping_table_offset, m.vmap_table_offset, m.gc_map_offset, m.invoke_stub_offset>>

RECURSIVE Flatten(_)
Flatten(ms) == IF ms = <<>> THEN <<>> ELSE MethodOffsetsWords(Head(ms)) \o Flatten(Tail(ms))

OatClassCtor(status, methods_count) ==
  [status |-> status,
   method_offsets |-> [m \in 1 .. methods_count |-> OatMethodOffsets(0, 0, 0, 0, 0, 0, 0, 0)]]

\* (mutant) the size of an OatClass leaves its status out
OatClassSizeOf_NoStatus(r) == SizeOfOatMethodOffsets * Len(r.method_offsets)

OatClassSizeOf(r) == SizeOfU32 + SizeOfOatMethodOffsets * Len(r.method_offsets)

OatClassUpdateChecksum(header, r, idx) ==
  LET h1 == UpdateChecksum(header, "status", idx, SizeOfU32, <<r.status>>)
  IN  UpdateChecksum(h1, "method_offsets", idx,
                     SizeOfOatMethodOffsets * Len(r.method_offsets), Flatten(r.method_offsets))

\* ------------------------------------------------------------------------
\* The compiler's and the verifier's results for a class, by class reference
\* ------------------------------------------------------------------------

\* compiler_->GetCompiledClass(class_ref): the first class-def of each DEX is compiled
GetCompiledClass(dex_idx, class_def_idx) ==
  IF class_def_idx = 0 THEN [status |-> kStatusVerified] ELSE NULL

\* verifier::MethodVerifier::IsClassRejected(class_ref)
IsClassRejected(dex_idx, class_def_idx) == (dex_idx + class_def_idx) % 2 = 1

\* ------------------------------------------------------------------------
\* The planning pass, phases 1 to 5
\* ------------------------------------------------------------------------

\* OatHeader::OatHeader: executable_offset_ = 0; the checksum starts with the
\* header's own fields and the image location
OatHeaderCtor(location_size) ==
  UpdateChecksum(
    UpdateChecksum([executable_offset |-> 0, adler32_checksum |-> <<>>],
                   "oat_header", 0, SizeOfOatHeader - 2 * SizeOfU32, <<>>),
    "image_file_location", 0, location_size, <<location_size>>)

\* OatHeader::SetExecutableOffset
SetExecutableOffset(header, executable_offset) ==
  UpdateChecksum([header EXCEPT !.executable_offset = executable_offset],
                 "executable_offset", 0, SizeOfU32, <<executable_offset>>)

InitOatHeaderOffset(location_size) == SizeOfOatHeader + location_size

\* InitOatDexFiles, from DEX k (1-based) on: the records and the cursor
RECURSIVE InitOatDexFilesFrom(_, _, _, _, _)
InitOatDexFilesFrom(dexes, k, off, recs, pl) ==
  IF k > Len(dexes) THEN [offset |-> off, oat_dex_files |-> recs, plan |-> pl]
  ELSE LET r == OatDexFileCtor(dexes[k])
       IN  InitOatDexFilesFrom(dexes, k + 1, off + OatDexFileSizeOf(r), Append(recs, r),
                               Append(pl, Item("OatDexFile", k - 1, OatDexFileSizeOf(r), <<off>>)))

\* (mutant) the dex_file_offset_ of the records is left as constructed
RECURSIVE InitDexFilesFrom_OffsetUnset(_, _, _, _, _)
InitDexFilesFrom_OffsetUnset(dexes, k, off, recs, pl) ==
  IF k > Len(dexes) THEN [offset |-> off, oat_dex_files |-> recs, plan |-> pl]
  ELSE LET aligned == RoundUp(off, 4)
       IN  InitDexFilesFrom_OffsetUnset(dexes, k + 1, aligned + dexes[k].file_size, recs,
                                        Append(pl, Item("DexFile", k - 1, dexes[k].file_size,
                                                        <<aligned>>)))

\* (mutant) the DEX payloads are not aligned to 4 bytes
RECURSIVE InitDexFilesFrom_NoRoundUp(_, _, _, _, _)
InitDexFilesFrom_NoRoundUp(dexes, k, off, recs, pl) ==
  IF k > Len(dexes) THEN [offset |-> off, oat_dex_files |-> recs, plan |-> pl]
  ELSE InitDexFilesFrom_NoRoundUp(dexes, k + 1, off + dexes[k].file_size,
                                  [recs EXCEPT ![k].dex_file_offset = off],
                                  Append(pl, Item("DexFile", k - 1, dexes[k].file_size, <<off>>)))

\* InitDexFiles, from DEX k on: dex_file_offset_ of each record and the cursor
RECURSIVE InitDexFilesFrom(_, _, _, _, _)
InitDexFilesFrom(dexes, k, off, recs, pl) ==
  IF k > Len(dexes) THEN [offset |-> off, oat_dex_files |-> recs, plan |-> pl]
  ELSE LET aligned == RoundUp(off, 4)
       IN  InitDexFilesFrom(dexes, k + 1, aligned + dexes[k].file_size,
                            [recs EXCEPT ![k].dex_file_offset = aligned],
                            Append(pl, Item("DexFile", k - 1, dexes[k].file_size, <<aligned>>)))

\* (mutant) the verifier's rejection is looked at before the compiled class
ClassStatus_RejectedFirst(dex_idx, class_def_idx) ==
  IF IsClassRejected(dex_idx, class_def_idx) THEN kStatusError
  ELSE IF GetCompiledClass(dex_idx, class_def_idx) # NULL
  THEN GetCompiledClass(dex_idx, class_def_idx).status
  ELSE kStatusNotReady

\* the status InitOatClasses gives a class
ClassStatus(dex_idx, class_def_idx) ==
  IF GetCompiledClass(dex_idx, class_def_idx) # NULL
  THEN GetCompiledClass(dex_idx, class_def_idx).status
  ELSE IF IsClassRejected(dex_idx, class_def_idx) THEN kStatusError ELSE kStatusNotReady

\* the method count InitOatClasses gives a class
NumMethods(class_def) ==
  IF class_def.has_data THEN NumDirectMethods(class_def) + NumVirtualMethods(class_def) ELSE 0

\* the state InitOatClasses threads through its loops
OatClassesState(off, dex_recs, class_recs, header, pl) ==
  [offset |-> off, oat_dex_files |-> dex_recs, oat_classes |-> class_recs,
   oat_header |-> header, plan |-> pl]

\* (mutant) methods_offsets_ takes the offset behind the OatClass, not its start
RECURSIVE InitOatClassesOfDex_OffsetBehind(_, _, _, _)
InitOatClassesOfDex_OffsetBehind(dex_file, k, c, st) ==
  IF c >= NumClassDefs(dex_file) THEN st
  ELSE LET oat_class == OatClassCtor(ClassStatus(k - 1, c), NumMethods(GetClassDef(dex_file, c)))
       IN  InitOatClassesOfDex_OffsetBehind(dex_file, k, c + 1,
             OatClassesState(st.offset + OatClassSizeOf(oat_class),
                             [st.oat_dex_files EXCEPT ![k].methods_offsets[c + 1] =
                                st.offset + OatClassSizeOf(oat_class)],
                             Append(st.oat_classes, oat_class),
                             st.oat_header,
                             Append(st.plan, Item("OatClass", Len(st.oat_classes),
                                                  OatClassSizeOf(oat_class), <<st.offset>>))))

\* the inner loop of InitOatClasses: the class-defs of DEX k from c (0-based) on
RECURSIVE InitOatClassesOfDex(_, _, _, _)
InitOatClassesOfDex(dex_file, k, c, st) ==
  IF c >= NumClassDefs(dex_file) THEN st
  ELSE LET oat_class == OatClassCtor(ClassStatus(k - 1, c), NumMethods(GetClassDef(dex_file, c)))
       IN  InitOatClassesOfDex(dex_file, k, c + 1,
             OatClassesState(st.offset + OatClassSizeOf(oat_class),
                             [st.oat_dex_files EXCEPT ![k].methods_offsets[c + 1] = st.offset],
                             Append(st.oat_classes, oat_class),
                             st.oat_header,
                             Append(st.plan, Item("OatClass", Len(st.oat_classes),
                                                  OatClassSizeOf(oat_class), <<st.offset>>))))

\* (mutant) each DEX's record is folded before its class-defs are visited
RECURSIVE InitOatClassesFrom_FoldFirst(_, _, _)
InitOatClassesFrom_FoldFirst(dexes, k, st) ==
  IF k > Len(dexes) THEN st
  ELSE LET s0 == [st EXCEPT !.oat_header =
                    OatDexFileUpdateChecksum(st.oat_header, st.oat_dex_files[k], k - 1)]
       IN  InitOatClassesFrom_FoldFirst(dexes, k + 1, InitOatClassesOfDex(dexes[k], k, 0, s0))

\* the outer loop of InitOatClasses: each DEX's record is folded after its class-defs
RECURSIVE InitOatClassesFrom(_, _, _)
InitOatClassesFrom(dexes, k, st) ==
  IF k > Len(dexes) THEN st
  ELSE LET s1 == InitOatClassesOfDex(dexes[k], k, 0, st)
       IN  InitOatClassesFrom(dexes, k + 1,
             [s1 EXCEPT !.oat_header =
                OatDexFileUpdateChecksum(s1.oat_header, s1.oat_dex_files[k], k - 1)])

\* (mutant) the executable section is aligned like code, not to a page
InitOatCodeOffset_CodeAligned(old_offset) == RoundUp(old_offset, kArmAlignment)

\* InitOatCode: the executable section starts on a page boundary
InitOatCodeOffset(old_offset) == RoundUp(old_offset, kPageSize)

\* ------------------------------------------------------------------------
\* The planning pass, phase 6: InitOatCodeMethod
\* ------------------------------------------------------------------------

\* SafeMap::find and SafeMap::Put on a deduplication table
Found(table, blob) == blob.id \in DOMAIN table
Put(table, blob, off) == (blob.id :> off) @@ table

\* what InitOatCodeMethod reads and writes besides the method's record
CodeState ==
  [offset |-> offset, code_offsets |-> code_offsets,
   mapping_table_offsets |-> mapping_table_offsets,
   vmap_table_offsets |-> vmap_table_offsets, gc_map_offsets |-> gc_map_offsets,
   oat_header |-> oat_header, plan |-> plan, value |-> 0,
   at |-> <<oat_class_index, class_def_method_index>>]

\* (mutant) a method whose code is already interned records its own tentative offset
InitMethodCode_KeepTentative(st, compiled_method) ==
  LET aligned == AlignCode(st.offset)
      code == compiled_method.code
      tentative == aligned + SizeOfU32 + compiled_method.code_delta
  IN  IF Found(st.code_offsets, code)
      THEN [st EXCEPT !.offset = aligned, !.value = tentative]
      ELSE [st EXCEPT !.offset = aligned + SizeOfU32 + code.size,
                      !.code_offsets = Put(@, code, tentative),
                      !.oat_header = UpdateChecksumAt(@, "code", code.id, code.size, <<code.id>>, st.at),
                      !.plan = Append(@, ItemAt("code", code.id, SizeOfU32 + code.size, <<aligned>>, st.at)),
                      !.value = tentative]

\* (mutant) the cursor is not aligned before the method's code
InitMethodCode_NoAlign(st, compiled_method) ==
  LET code == compiled_method.code
      tentative == st.offset + SizeOfU32 + compiled_method.code_delta
  IN  IF Found(st.code_offsets, code)
      THEN [st EXCEPT !.value = st.code_offsets[code.id]]
      ELSE [st EXCEPT !.offset = st.offset + SizeOfU32 + code.size,
                      !.code_offsets = Put(@, code, tentative),
                      !.oat_header = UpdateChecksumAt(@, "code", code.id, code.size, <<code.id>>, st.at),
                      !.plan = Append(@, ItemAt("code", code.id, SizeOfU32 + code.size, <<st.offset>>, st.at)),
                      !.value = tentative]

\* (mutant) the cursor is not advanced over the size prefix of new code
InitMethodCode_NoSizePrefix(st, compiled_method) ==
  LET aligned == AlignCode(st.offset)
      code == compiled_method.code
      tentative == aligned + SizeOfU32 + compiled_method.code_delta
  IN  IF Found(st.code_offsets, code)
      THEN [st EXCEPT !.offset = aligned, !.value = st.code_offsets[code.id]]
      ELSE [st EXCEPT !.offset = aligned + code.size,
                      !.code_offsets = Put(@, code, tentative),
                      !.oat_header = UpdateChecksumAt(@, "code", code.id, code.size, <<code.id>>, st.at),
                      !.plan = Append(@, ItemAt("code", code.id, SizeOfU32 + code.size, <<aligned>>, st.at)),
                      !.value = tentative]

\* the method's code: align, then intern in code_offsets_
InitMethodCode(st, compiled_method) ==
  LET aligned == AlignCode(st.offset)
      code == compiled_method.code
      tentative == aligned + SizeOfU32 + compiled_method.code_delta
  IN  IF Found(st.code_offsets, code)
      THEN [st EXCEPT !.offset = aligned, !.value = st.code_offsets[code.id]]
      ELSE [st EXCEPT !.offset = aligned + SizeOfU32 + code.size,
                      !.code_offsets = Put(@, code, tentative),
                      !.oat_header = UpdateChecksumAt(@, "code", code.id, code.size, <<code.id>>, st.at),
                      !.plan = Append(@, ItemAt("code", code.id, SizeOfU32 + code.size, <<aligned>>, st.at)),
                      !.value = tentative]

\* (mutant) the cursor is advanced over a mapping table that is already interned
InitMappingTable_AdvanceOnHit(st, compiled_method) ==
  LET mapping_table == compiled_method.mapping_table
      tentative == IF mapping_table.size = 0 THEN 0 ELSE st.offset
  IN  IF Found(st.mapping_table_offsets, mapping_table)
      THEN [st EXCEPT !.offset = @ + mapping_table.size,
                      !.value = st.mapping_table_offsets[mapping_table.id]]
      ELSE [st EXCEPT !.offset = @ + mapping_table.size,
                      !.mapping_table_offsets = Put(@, mapping_table, tentative),
                      !.oat_header = UpdateChecksumAt(@, "mapping_table", mapping_table.id,
                                                    mapping_table.size, <<mapping_table.id>>, st.at),
                      !.plan = Append(@, ItemAt("mapping_table", mapping_table.id,
                                              mapping_table.size, <<st.offset>>, st.at)),
                      !.value = tentative]

InitMappingTable(st, compiled_method) ==
  LET mapping_table == compiled_method.mapping_table
      tentative == IF mapping_table.size = 0 THEN 0 ELSE st.offset
  IN  IF Found(st.mapping_table_offsets, mapping_table)
      THEN [st EXCEPT !.value = st.mapping_table_offsets[mapping_table.id]]
      ELSE [st EXCEPT !.offset = @ + mapping_table.size,
                      !.mapping_table_offsets = Put(@, mapping_table, tentative),
                      !.oat_header = UpdateChecksumAt(@, "mapping_table", mapping_table.id,
                                                    mapping_table.size, <<mapping_table.id>>, st.at),
                      !.plan = Append(@, ItemAt("mapping_table", mapping_table.id,
                                              mapping_table.size, <<st.offset>>, st.at)),
                      !.value = tentative]

\* (mutant) an empty vmap table is recorded at the cursor
InitVmapTable_EmptyAtCursor(st, compiled_method) ==
  LET vmap_table == compiled_method.vmap_table
      tentative == st.offset
  IN  IF Found(st.vmap_table_offsets, vmap_table)
      THEN [st EXCEPT !.value = st.vmap_table_offsets[vmap_table.id]]
      ELSE [st EXCEPT !.offset = @ + vmap_table.size,
                      !.vmap_table_offsets = Put(@, vmap_table, tentative),
                      !.oat_header = UpdateChecksumAt(@, "vmap_table", vmap_table.id,
                                                    vmap_table.size, <<vmap_table.id>>, st.at),
                      !.plan = Append(@, ItemAt("vmap_table", vmap_table.id,
                                              vmap_table.size, <<st.offset>>, st.at)),
                      !.value = tentative]

\* (mutant) a new vmap table is not folded into the checksum
InitVmapTable_NoFold(st, compiled_method) ==
  LET vmap_table == compiled_method.vmap_table
      tentative == IF vmap_table.size = 0 THEN 0 ELSE st.offset
  IN  IF Found(st.vmap_table_offsets, vmap_table)
      THEN [st EXCEPT !.value = st.vmap_table_offsets[vmap_table.id]]
      ELSE [st EXCEPT !.offset = @ + vmap_table.size,
                      !.vmap_table_offsets = Put(@, vmap_table, tentative),
                      !.plan = Append(@, ItemAt("vmap_table", vmap_table.id,
                                              vmap_table.size, <<st.offset>>, st.at)),
                      !.value = tentative]

InitVmapTable(st, compiled_method) ==
  LET vmap_table == compiled_method.vmap_table
      tentative == IF vmap_table.size = 0 THEN 0 ELSE st.offset
  IN  IF Found(st.vmap_table_offsets, vmap_table)
      THEN [st EXCEPT !.value = st.vmap_table_offsets[vmap_table.id]]
      ELSE [st EXCEPT !.offset = @ + vmap_table.size,
                      !.vmap_table_offsets = Put(@, vmap_table, tentative),
                      !.oat_header = UpdateChecksumAt(@, "vmap_table", vmap_table.id,
                                                    vmap_table.size, <<vmap_table.id>>, st.at),
                      !.plan = Append(@, ItemAt("vmap_table", vmap_table.id,
                                              vmap_table.size, <<st.offset>>, st.at)),
                      !.value = tentative]

\* (mutant) a GC map that is already interned is folded into the checksum again
InitGcMap_FoldOnHit(st, compiled_method) ==
  LET gc_map == compiled_method.gc_map
      tentative == IF gc_map.size = 0 THEN 0 ELSE st.offset
  IN  IF Found(st.gc_map_offsets, gc_map)
      THEN [st EXCEPT !.oat_header = UpdateChecksumAt(@, "gc_map", gc_map.id,
                                                    gc_map.size, <<gc_map.id>>, st.at),
                      !.value = st.gc_map_offsets[gc_map.id]]
      ELSE [st EXCEPT !.offset = @ + gc_map.size,
                      !.gc_map_offsets = Put(@, gc_map, tentative),
                      !.oat_header = UpdateChecksumAt(@, "gc_map", gc_map.id,
                                                    gc_map.size, <<gc_map.id>>, st.at),
                      !.plan = Append(@, ItemAt("gc_map", gc_map.id, gc_map.size, <<st.offset>>, st.at)),
                      !.value = tentative]

InitGcMap(st, compiled_method) ==
  LET gc_map == compiled_method.gc_map
      tentative == IF gc_map.size = 0 THEN 0 ELSE st.offset
  IN  IF Found(st.gc_map_offsets, gc_map)
      THEN [st EXCEPT !.value = st.gc_map_offsets[gc_map.id]]
      ELSE [st EXCEPT !.offset = @ + gc_map.size,
                      !.gc_map_offsets = Put(@, gc_map, tentative),
                      !.oat_header = UpdateChecksumAt(@, "gc_map", gc_map.id,
                                                    gc_map.size, <<gc_map.id>>, st.at),
                      !.plan = Append(@, ItemAt("gc_map", gc_map.id, gc_map.size, <<st.offset>>, st.at)),
                      !.value = tentative]

\* (mutant) a method whose invoke stub is already interned records its own tentative offset
InitInvokeStub_KeepTentative(st, compiled_invoke_stub) ==
  LET aligned == AlignCode(st.offset)
      invoke_stub == compiled_invoke_stub.code
      tentative == aligned + SizeOfU32 + compiled_invoke_stub.code_delta
  IN  IF Found(st.code_offsets, invoke_stub)
      THEN [st EXCEPT !.offset = aligned, !.value = tentative]
      ELSE [st EXCEPT !.offset = aligned + SizeOfU32 + invoke_stub.size,
                      !.code_offsets = Put(@, invoke_stub, tentative),
                      !.oat_header = UpdateChecksumAt(@, "invoke_stub", invoke_stub.id,
                                                    invoke_stub.size, <<invoke_stub.id>>, st.at),
                      !.plan = Append(@, ItemAt("invoke_stub", invoke_stub.id,
                                              SizeOfU32 + invoke_stub.size, <<aligned>>, st.at)),
                      !.value = tentative]

\* (mutant) the cursor is not advanced over a new invoke stub
InitInvokeStub_NoReserve(st, compiled_invoke_stub) ==
  LET aligned == AlignCode(st.offset)
      invoke_stub == compiled_invoke_stub.code
      tentative == aligned + SizeOfU32 + compiled_invoke_stub.code_delta
  IN  IF Found(st.code_offsets, invoke_stub)
      THEN [st EXCEPT !.offset = aligned, !.value = st.code_offsets[invoke_stub.id]]
      ELSE [st EXCEPT !.offset = aligned,
                      !.code_offsets = Put(@, invoke_stub, tentative),
                      !.oat_header = UpdateChecksumAt(@, "invoke_stub", invoke_stub.id,
                                                    invoke_stub.size, <<invoke_stub.id>>, st.at),
                      !.plan = Append(@, ItemAt("invoke_stub", invoke_stub.id,
                                              SizeOfU32 + invoke_stub.size, <<aligned>>, st.at)),
                      !.value = tentative]

\* (mutant) the cursor is advanced over an invoke stub that is already interned
InitInvokeStub_AdvanceOnHit(st, compiled_invoke_stub) ==
  LET aligned == AlignCode(st.offset)
      invoke_stub == compiled_invoke_stub.code
  IN  IF Found(st.code_offsets, invoke_stub)
      THEN [st EXCEPT !.offset = aligned + SizeOfU32 + invoke_stub.size,
                      !.value = st.code_offsets[invoke_stub.id]]
      ELSE [st EXCEPT !.offset = aligned + SizeOfU32 + invoke_stub.size,
                      !.code_offsets = Put(@, invoke_stub,
                                           aligned + SizeOfU32 + compiled_invoke_stub.code_delta),
                      !.oat_header = UpdateChecksumAt(@, "invoke_stub", invoke_stub.id,
                                                      invoke_stub.size, <<invoke_stub.id>>, st.at),
                      !.plan = Append(@, ItemAt("invoke_stub", invoke_stub.id,
                                                SizeOfU32 + invoke_stub.size, <<aligned>>, st.at)),
                      !.value = aligned + SizeOfU32 + compiled_invoke_stub.code_delta]

\* the invoke stub: align, then intern in code_offsets_
InitInvokeStub(st, compiled_invoke_stub) ==
  LET aligned == AlignCode(st.offset)
      invoke_stub == compiled_invoke_stub.code
      tentative == aligned + SizeOfU32 + compiled_invoke_stub.code_delta
  IN  IF Found(st.code_offsets, invoke_stub)
      THEN [st EXCEPT !.offset = aligned, !.value = st.code_offsets[invoke_stub.id]]
      ELSE [st EXCEPT !.offset = aligned + SizeOfU32 + invoke_stub.size,
                      !.code_offsets = Put(@, invoke_stub, tentative),
                      !.oat_header = UpdateChecksumAt(@, "invoke_stub", invoke_stub.id,
                                                    invoke_stub.size, <<invoke_stub.id>>, st.at),
                      !.plan = Append(@, ItemAt("invoke_stub", invoke_stub.id,
                                              SizeOfU32 + invoke_stub.size, <<aligned>>, st.at)),
                      !.value = tentative]

\* (mutant) the frame size of a method without compiled code starts at 0
InitOatCodeMethodResult_ZeroFrame(st, is_static, method_idx) ==
  LET compiled_method == GetCompiledMethod(method_idx)
      compiled == compiled_method # NULL
      s1 == IF compiled THEN InitMethodCode(st, compiled_method) ELSE st
      s2 == IF compiled THEN InitMappingTable(s1, compiled_method) ELSE st
      s3 == IF compiled THEN InitVmapTable(s2, compiled_method) ELSE st
      s4 == IF compiled THEN InitGcMap(s3, compiled_method) ELSE st
      compiled_invoke_stub == FindInvokeStub(is_static, GetMethodShorty(method_idx))
      has_stub == compiled_invoke_stub # NULL
      s5 == IF has_stub THEN InitInvokeStub(s4, compiled_invoke_stub) ELSE s4
  IN  [st |-> s5,
       method_offsets |->
         OatMethodOffsets(IF compiled THEN s1.value ELSE 0,
                          IF compiled THEN compiled_method.frame_size_in_bytes ELSE 0,
                          IF compiled THEN compiled_method.core_spill_mask ELSE 0,
                          IF compiled THEN compiled_method.fp_spill_mask ELSE 0,
                          IF compiled THEN s2.value ELSE 0,
                          IF compiled THEN s3.value ELSE 0,
                          IF compiled THEN s4.value ELSE 0,
                          IF has_stub THEN s5.value ELSE 0)]

\* (mutant) the invoke stub is looked up for a compiled method only
InitOatCodeMethodResult_StubIfCompiled(st, is_static, method_idx) ==
  LET compiled_method == GetCompiledMethod(method_idx)
      compiled == compiled_method # NULL
      s1 == IF compiled THEN InitMethodCode(st, compiled_method) ELSE st
      s2 == IF compiled THEN InitMappingTable(s1, compiled_method) ELSE st
      s3 == IF compiled THEN InitVmapTable(s2, compiled_method) ELSE st
      s4 == IF compiled THEN InitGcMap(s3, compiled_method) ELSE st
      compiled_invoke_stub == FindInvokeStub(is_static, GetMethodShorty(method_idx))
      has_stub == compiled /\ compiled_invoke_stub # NULL
      s5 == IF has_stub THEN InitInvokeStub(s4, compiled_invoke_stub) ELSE s4
  IN  [st |-> s5,
       method_offsets |->
         OatMethodOffsets(IF compiled THEN s1.value ELSE 0,
                          IF compiled THEN compiled_method.frame_size_in_bytes ELSE kStackAlignment,
                          IF compiled THEN compiled_method.core_spill_mask ELSE 0,
                          IF compiled THEN compiled_method.fp_spill_mask ELSE 0,
                          IF compiled THEN s2.value ELSE 0,
                          IF compiled THEN s3.value ELSE 0,
                          IF compiled THEN s4.value ELSE 0,
                          IF has_stub THEN s5.value ELSE 0)]

\* InitOatCodeMethod: the state after the method and the method's OatMethodOffsets
InitOatCodeMethodResult(st, is_static, method_idx) ==
  LET compiled_method == GetCompiledMethod(method_idx)
      compiled == compiled_method # NULL
      s1 == IF compiled THEN InitMethodCode(st, compiled_method) ELSE st
      s2 == IF compiled THEN InitMappingTable(s1, compiled_method) ELSE st
      s3 == IF compiled THEN InitVmapTable(s2, compiled_method) ELSE st
      s4 == IF compiled THEN InitGcMap(s3, compiled_method) ELSE st
      compiled_invoke_stub == FindInvokeStub(is_static, GetMethodShorty(method_idx))
      has_stub == compiled_invoke_stub # NULL
      s5 == IF has_stub THEN InitInvokeStub(s4, compiled_invoke_stub) ELSE s4
  IN  [st |-> s5,
       method_offsets |->
         OatMethodOffsets(IF compiled THEN s1.value ELSE 0,
                          IF compiled THEN compiled_method.frame_size_in_bytes ELSE kStackAlignment,
                          IF compiled THEN compiled_method.core_spill_mask ELSE 0,
                          IF compiled THEN compiled_method.fp_spill_mask ELSE 0,
                          IF compiled THEN s2.value ELSE 0,
                          IF compiled THEN s3.value ELSE 0,
                          IF compiled THEN s4.value ELSE 0,
                          IF has_stub THEN s5.value ELSE 0)]

\* ------------------------------------------------------------------------
\* Image mode: the runtime's method records
\* ------------------------------------------------------------------------

\* AbstractMethod::IsStatic, IsConstructor and GetDeclaringClass()->IsInitialized()
\* of the method the class linker resolves for a method index
IsStatic(method_idx) == AccStatic(method_idx)
IsConstructor(method_idx) == method_idx \in {0, 4}
DeclaringClassIsInitialized(method_idx) == method_idx \in {2, 5}

\* a method record as the class linker loaded it: nothing set by the writer
Unset == [unset |-> TRUE]
LoadedMethod ==
  [frame_size_in_bytes |-> Unset, core_spill_mask |-> Unset, fp_spill_mask |-> Unset,
   oat_mapping_table_offset |-> Unset, code |-> Unset, oat_vmap_table_offset |-> Unset,
   oat_native_gc_map_offset |-> Unset, oat_invoke_stub_offset |-> Unset]

\* what SetOatCodeOffset and SetCode leave in the record
OatCodeOffset(off) == [oat_code_offset |-> off]
StaticResolutionStub == [resolution_stub |-> "kStaticMethod"]

\* (mutant) the code offset is written over the trampoline of a static method
SetRuntimeMethod_AlwaysCodeOffset(method, method_idx, mo) ==
  [method EXCEPT
     !.frame_size_in_bytes = mo.frame_size_in_bytes,
     !.core_spill_mask = mo.core_spill_mask,
     !.fp_spill_mask = mo.fp_spill_mask,
     !.oat_mapping_table_offset = mo.mapping_table_offset,
     !.code = OatCodeOffset(mo.code_offset),
     !.oat_vmap_table_offset = mo.vmap_table_offset,
     !.oat_native_gc_map_offset = mo.gc_map_offset,
     !.oat_invoke_stub_offset = mo.invoke_stub_offset]

\* the image-mode block of InitOatCodeMethod on the resolved method
SetRuntimeMethod(method, method_idx, mo) ==
  [method EXCEPT
     !.frame_size_in_bytes = mo.frame_size_in_bytes,
     !.core_spill_mask = mo.core_spill_mask,
     !.fp_spill_mask = mo.fp_spill_mask,
     !.oat_mapping_table_offset = mo.mapping_table_offset,
     !.code = IF \/ ~IsStatic(method_idx)
                 \/ IsConstructor(method_idx)
                 \/ DeclaringClassIsInitialized(method_idx)
              THEN OatCodeOffset(mo.code_offset)
              ELSE StaticResolutionStub,
     !.oat_vmap_table_offset = mo.vmap_table_offset,
     !.oat_native_gc_map_offset = mo.gc_map_offset,
     !.oat_invoke_stub_offset = mo.invoke_stub_offset]

\* the method the loops of both passes stand at, and its invoke type
CurrentDexFile == dex_files[i + 1]
CurrentClassDef == GetClassDef(CurrentDexFile, class_def_index)
CurrentMethodIdx == ClassMethods(CurrentClassDef)[class_def_method_index + 1]
InDirectMethods == class_def_method_index < NumDirectMethods(CurrentClassDef)
\* it.GetMethodInvokeType(class_def) == kStatic
TypeIsStatic == InDirectMethods /\ AccStatic(CurrentMethodIdx)

\* one call of InitOatCodeMethod or WriteCodeMethod: the slot it was called
\* for, the method, the key of its invoke-stub lookup and the record it
\* stored or read
Visit(callee, at, method_idx, is_static, method_offsets) ==
  [callee |-> callee, at |-> at, method_idx |-> method_idx,
   key |-> <<is_static, GetMethodShorty(method_idx)>>, method_offsets |-> method_offsets]

\* ------------------------------------------------------------------------
\* OatWriter::Create: the constructor
\* ------------------------------------------------------------------------

NewStream == [pos |-> 0, ops |-> 0, ok |-> TRUE, ret |-> 0, log |-> <<>>, seeks |-> <<>>]

InitWriter ==
  /\ pc = "InitOatHeader"
  /\ offset = 0
  /\ oat_header = NULL
  /\ oat_dex_files = <<>>
  /\ oat_classes = <<>>
  /\ executable_offset_padding_length = 0
  /\ code_offsets = <<>>
  /\ mapping_table_offsets = <<>>
  /\ vmap_table_offsets = <<>>
  /\ gc_map_offsets = <<>>
  /\ i = 0 /\ class_def_index = 0 /\ oat_class_index = 0 /\ class_def_method_index = 0
  /\ out = NewStream
  /\ code_offset = 0
  /\ dchecks = TRUE
  /\ plan = <<>>
  /\ methods = [m \in MethodIdxs |-> LoadedMethod]
  /\ run = 1
  /\ first_run = NULL
  /\ visits = <<>>

Init ==
  /\ dex_files \in DexFileLists
  /\ image_file_location_size \in ImageFileLocationSizes
  /\ fail_at = 0
  /\ is_image = FALSE
  /\ InitWriter

InitOatHeader ==
  /\ pc = "InitOatHeader"
  /\ oat_header' = OatHeaderCtor(image_file_location_size)
  /\ offset' = InitOatHeaderOffset(image_file_location_size)
  /\ pc' = "InitOatDexFiles"
  /\ UNCHANGED <<inputs, methods, earlier, visits, oat_dex_files, oat_classes, executable_offset_padding_length,
                 tables, loop, stream, plan>>

InitOatDexFiles ==
  /\ pc = "InitOatDexFiles"
  /\ LET r == InitOatDexFilesFrom(dex_files, 1, offset, oat_dex_files, plan)
     IN  /\ offset' = r.offset
         /\ oat_dex_files' = r.oat_dex_files
         /\ plan' = r.plan
  /\ pc' = "InitDexFiles"
  /\ UNCHANGED <<inputs, methods, earlier, visits, oat_header, oat_classes, executable_offset_padding_length,
                 tables, loop, stream>>

InitDexFiles ==
  /\ pc = "InitDexFiles"
  /\ LET r == InitDexFilesFrom(dex_files, 1, offset, oat_dex_files, plan)
     IN  /\ offset' = r.offset
         /\ oat_dex_files' = r.oat_dex_files
         /\ plan' = r.plan
  /\ pc' = "InitOatClasses"
  /\ UNCHANGED <<inputs, methods, earlier, visits, oat_header, oat_classes, executable_offset_padding_length,
                 tables, loop, stream>>

InitOatClasses ==
  /\ pc = "InitOatClasses"
  /\ LET r == InitOatClassesFrom(dex_files, 1,
                OatClassesState(offset, oat_dex_files, oat_classes, oat_header, plan))
     IN  /\ offset' = r.offset
         /\ oat_dex_files' = r.oat_dex_files
         /\ oat_classes' = r.oat_classes
         /\ oat_header' = r.oat_header
         /\ plan' = r.plan
  /\ pc' = "InitOatCode"
  /\ UNCHANGED <<inputs, methods, earlier, visits, executable_offset_padding_length, tables, loop, stream>>

InitOatCode ==
  /\ pc = "InitOatCode"
  /\ offset' = InitOatCodeOffset(offset)
  /\ oat_header' = SetExecutableOffset(oat_header, offset')
  /\ executable_offset_padding_length' = offset' - offset
  /\ plan' = Append(plan, Item("executable", 0, 0, <<offset'>>))
  /\ pc' = "InitOatCodeDexFiles"
  /\ i' = 0 /\ class_def_index' = 0 /\ oat_class_index' = 0 /\ class_def_method_index' = 0
  /\ UNCHANGED <<inputs, methods, earlier, visits, oat_dex_files, oat_classes, tables, stream>>

\* the loops of InitOatCodeDexFiles, InitOatCodeDexFile and InitOatCodeClassDef
AtMethod ==
  /\ i < Len(dex_files)
  /\ class_def_index < NumClassDefs(CurrentDexFile)
  /\ CurrentClassDef.has_data
  /\ class_def_method_index < Len(ClassMethods(CurrentClassDef))

AtClassDefEnd ==
  /\ i < Len(dex_files)
  /\ class_def_index < NumClassDefs(CurrentDexFile)
  /\ \/ ~CurrentClassDef.has_data
     \/ class_def_method_index = Len(ClassMethods(CurrentClassDef))

AtDexFileEnd ==
  /\ i < Len(dex_files)
  /\ class_def_index = NumClassDefs(CurrentDexFile)

AtDexFilesEnd == i = Len(dex_files)

\* one call of InitOatCodeMethod
InitOatCodeMethod ==
  /\ pc = "InitOatCodeDexFiles"
  /\ AtMethod
  /\ LET r == InitOatCodeMethodResult(CodeState, TypeIsStatic, CurrentMethodIdx)
     IN  /\ offset' = r.st.offset
         /\ code_offsets' = r.st.code_offsets
         /\ mapping_table_offsets' = r.st.mapping_table_offsets
         /\ vmap_table_offsets' = r.st.vmap_table_offsets
         /\ gc_map_offsets' = r.st.gc_map_offsets
         /\ oat_header' = r.st.oat_header
         /\ plan' = Append(r.st.plan, ItemAt("method_end", CurrentMethodIdx, 0,
                                             <<r.st.offset>>, CodeState.at))
         /\ oat_classes' = [oat_classes EXCEPT
              ![oat_class_index + 1].method_offsets[class_def_method_index + 1] = r.method_offsets]
         /\ methods' = IF is_image
                        THEN [methods EXCEPT ![CurrentMethodIdx] =
                                SetRuntimeMethod(@, CurrentMethodIdx, r.method_offsets)]
                        ELSE methods
         /\ visits' = Append(visits, Visit("InitOatCodeMethod", CodeState.at, CurrentMethodIdx,
                                           TypeIsStatic, r.method_offsets))
  /\ class_def_method_index' = class_def_method_index + 1
  /\ UNCHANGED <<inputs, earlier, pc, oat_dex_files, executable_offset_padding_length,
                 i, class_def_index, oat_class_index, stream>>

\* InitOatCodeClassDef returns to InitOatCodeDexFile, which folds the OatClass
InitOatCodeClassDef ==
  /\ pc = "InitOatCodeDexFiles"
  /\ AtClassDefEnd
  /\ oat_header' = OatClassUpdateChecksum(oat_header, oat_classes[oat_class_index + 1],
                                          oat_class_index)
  /\ class_def_index' = class_def_index + 1
  /\ oat_class_index' = oat_class_index + 1
  /\ class_def_method_index' = 0
  /\ UNCHANGED <<inputs, methods, earlier, visits, pc, offset, oat_dex_files, oat_classes,
                 executable_offset_padding_length, tables, i, stream, plan>>

\* InitOatCodeDexFile returns to InitOatCodeDexFiles
InitOatCodeDexFile ==
  /\ pc = "InitOatCodeDexFiles"
  /\ AtDexFileEnd
  /\ i' = i + 1
  /\ class_def_index' = 0
  /\ UNCHANGED <<inputs, methods, earlier, visits, pc, offset, records, tables, oat_class_index,
                 class_def_method_index, stream, plan>>

\* (mutant) Write is called while InitOatCodeDexFiles is still in its loops
InitOatCodeDexFiles_WriteEarly ==
  /\ pc = "InitOatCodeDexFiles"
  /\ Len(dex_files) = Len(oat_dex_files)
  /\ pc' = "Write"
  /\ UNCHANGED <<inputs, methods, earlier, visits, offset, records, tables, loop, stream, plan>>

\* InitOatCodeDexFiles returns; the constructor's CHECK_EQ passes and Create calls Write
InitOatCodeDexFiles ==
  /\ pc = "InitOatCodeDexFiles"
  /\ AtDexFilesEnd
  /\ Len(dex_files) = Len(oat_dex_files)
  /\ pc' = "Write"
  /\ UNCHANGED <<inputs, methods, earlier, visits, offset, records, tables, loop, stream, plan>>

\* ------------------------------------------------------------------------
\* The output stream
\* ------------------------------------------------------------------------

\* OutputStream::WriteFully: ok tells whether it returned true
WriteFullyAt(s, kind, idx, len, val, at) ==
  IF s.ops + 1 = fail_at
  THEN [s EXCEPT !.ops = @ + 1, !.ok = FALSE]
  ELSE [s EXCEPT !.ops = @ + 1, !.ok = TRUE, !.pos = @ + len,
                 !.log = Append(@, [kind |-> kind, idx |-> idx, len |-> len, val |-> val,
                                    at |-> at, pos |-> s.pos])]

WriteFully(s, kind, idx, len, val) == WriteFullyAt(s, kind, idx, len, val, NoMethod)

\* OutputStream::Seek: ret is the position it returned; seeks is the history
\* of the moves made
Seek(s, off, whence) ==
  IF s.ops + 1 = fail_at
  THEN [s EXCEPT !.ops = @ + 1, !.ret = -1]
  ELSE LET target == IF whence = "kSeekSet" THEN off ELSE s.pos + off
       IN  [s EXCEPT !.ops = @ + 1, !.pos = target, !.ret = target,
                     !.seeks = Append(@, [from |-> s.pos, to |-> target])]

Failed(s) == [s EXCEPT !.ok = FALSE]

\* ------------------------------------------------------------------------
\* The writing pass: the header and the tables
\* ------------------------------------------------------------------------

OatDexFileWrite(s, r, idx) ==
  LET s1 == WriteFully(s, "dex_file_location_size", idx, SizeOfU32,
                       <<r.dex_file_location_size>>)
      s2 == WriteFully(s1, "dex_file_location_data", idx, r.dex_file_location_size,
                       <<r.dex_file_location_data>>)
      s3 == WriteFully(s2, "dex_file_location_checksum", idx, SizeOfU32,
                       <<r.dex_file_location_checksum>>)
      s4 == WriteFully(s3, "dex_file_offset", idx, SizeOfU32, <<r.dex_file_offset>>)
      s5 == WriteFully(s4, "methods_offsets", idx, SizeOfU32 * Len(r.methods_offsets),
                       r.methods_offsets)
  IN  IF ~s1.ok THEN s1
      ELSE IF ~s2.ok THEN s2
      ELSE IF ~s3.ok THEN s3
      ELSE IF ~s4.ok THEN s4
      ELSE s5

\* (mutant) the method offsets of an OatClass are written before its status
OatClassWrite_MethodsFirst(s, r, idx) ==
  LET s1 == WriteFully(s, "method_offsets", idx,
                       SizeOfOatMethodOffsets * Len(r.method_offsets), Flatten(r.method_offsets))
      s2 == WriteFully(s1, "status", idx, SizeOfU32, <<r.status>>)
  IN  IF ~s1.ok THEN s1 ELSE s2

OatClassWrite(s, r, idx) ==
  LET s1 == WriteFully(s, "status", idx, SizeOfU32, <<r.status>>)
      s2 == WriteFully(s1, "method_offsets", idx,
                       SizeOfOatMethodOffsets * Len(r.method_offsets), Flatten(r.method_offsets))
  IN  IF ~s1.ok THEN s1 ELSE s2

\* the three loops of WriteTables, from index k (1-based) on
RECURSIVE WriteOatDexFilesFrom(_, _)
WriteOatDexFilesFrom(s, k) ==
  IF k > Len(oat_dex_files) THEN [s EXCEPT !.ok = TRUE]
  ELSE LET s1 == OatDexFileWrite(s, oat_dex_files[k], k - 1)
       IN  IF ~s1.ok THEN s1 ELSE WriteOatDexFilesFrom(s1, k + 1)

RECURSIVE WriteDexFilesFrom(_, _)
WriteDexFilesFrom(s, k) ==
  IF k > Len(oat_dex_files) THEN [s EXCEPT !.ok = TRUE]
  ELSE LET expected_offset == oat_dex_files[k].dex_file_offset
           s1 == Seek(s, expected_offset, "kSeekSet")
           s2 == WriteFully(s1, "DexFile", k - 1, dex_files[k].file_size, <<k - 1>>)
       IN  IF s1.ret # expected_offset THEN Failed(s1)
           ELSE IF ~s2.ok THEN s2
           ELSE WriteDexFilesFrom(s2, k + 1)

RECURSIVE WriteOatClassesFrom(_, _)
WriteOatClassesFrom(s, k) ==
  IF k > Len(oat_classes) THEN [s EXCEPT !.ok = TRUE]
  ELSE LET s1 == OatClassWrite(s, oat_classes[k], k - 1)
       IN  IF ~s1.ok THEN s1 ELSE WriteOatClassesFrom(s1, k + 1)

WriteTablesResult(s) ==
  LET s1 == WriteOatDexFilesFrom(s, 1)
      s2 == WriteDexFilesFrom(s1, 1)
      s3 == WriteOatClassesFrom(s2, 1)
  IN  IF ~s1.ok THEN s1
      ELSE IF ~s2.ok THEN s2
      ELSE s3

\* Write, up to the call of WriteTables
WriteHeaderResult(s) ==
  LET s1 == WriteFully(s, "oat_header", 0, SizeOfOatHeader, <<oat_header.executable_offset>>)
      s2 == WriteFully(s1, "image_file_location", 0, image_file_location_size,
                       <<image_file_location_size>>)
  IN  IF ~s1.ok THEN s1 ELSE s2

\* DCHECK_CODE_OFFSET()
DCheckCodeOffset(g) == g.code_offset = g.out.pos

GState(s, off, ok) == [out |-> s, code_offset |-> off, dchecks |-> ok]

\* WriteCode: 0 when the seek over the padding fails
WriteCodeResult(s) ==
  LET executable_offset == oat_header.executable_offset
      s1 == Seek(s, executable_offset_padding_length, "kSeekCurrent")
  IN  IF s1.ret # executable_offset
      THEN GState(s1, 0, dchecks)
      ELSE GState(s1, executable_offset, dchecks /\ executable_offset = s1.pos)

\* ------------------------------------------------------------------------
\* The writing pass: WriteCodeMethod
\* ------------------------------------------------------------------------

\* (mutant) the position the alignment seek returns is not compared
SeekToAlignCode_Unchecked(g) ==
  LET aligned_code_offset == AlignCode(g.code_offset)
      aligned_code_delta == aligned_code_offset - g.code_offset
      s1 == Seek(g.out, aligned_code_delta, "kSeekCurrent")
  IN  IF aligned_code_delta = 0 THEN g
      ELSE GState(s1, g.code_offset + aligned_code_delta, g.dchecks)

\* the seek to the code alignment; code_offset 0 when it fails
SeekToAlignCode(g) ==
  LET aligned_code_offset == AlignCode(g.code_offset)
      aligned_code_delta == aligned_code_offset - g.code_offset
      s1 == Seek(g.out, aligned_code_delta, "kSeekCurrent")
  IN  IF aligned_code_delta = 0 THEN g
      ELSE IF s1.ret # aligned_code_offset THEN GState(s1, 0, g.dchecks)
      ELSE GState(s1, g.code_offset + aligned_code_delta,
                  g.dchecks /\ g.code_offset + aligned_code_delta = s1.pos)

\* (mutant) the payload of the code is written code_delta bytes behind its size
WriteMethodCode_PayloadAtDelta(g0, compiled_method, method_offsets, at) ==
  LET g == SeekToAlignCode(g0)
      code == compiled_method.code
      tentative == g.code_offset + SizeOfU32 + compiled_method.code_delta
      s1 == WriteFullyAt(g.out, "code_size", code.id, SizeOfU32, <<code.size>>, at)
      s2 == WriteFullyAt([s1 EXCEPT !.pos = @ + compiled_method.code_delta],
                         "code", code.id, code.size, <<code.id>>, at)
  IN  IF g.code_offset = 0 THEN g
      ELSE IF Found(code_offsets, code) /\ tentative # method_offsets.code_offset
      THEN GState(g.out, g.code_offset, g.dchecks)
      ELSE IF ~s1.ok THEN GState(s1, 0, g.dchecks)
      ELSE IF ~s2.ok THEN GState(s2, 0, g.dchecks)
      ELSE GState(s2, g.code_offset + SizeOfU32 + code.size, g.dchecks)

\* the method's code: the size prefix and the payload, unless deduplicated
WriteMethodCode(g0, compiled_method, method_offsets, at) ==
  LET g == SeekToAlignCode(g0)
      code == compiled_method.code
      tentative == g.code_offset + SizeOfU32 + compiled_method.code_delta
      s1 == WriteFullyAt(g.out, "code_size", code.id, SizeOfU32, <<code.size>>, at)
      s2 == WriteFullyAt(s1, "code", code.id, code.size, <<code.id>>, at)
  IN  IF g.code_offset = 0 THEN g
      ELSE IF Found(code_offsets, code) /\ tentative # method_offsets.code_offset
      THEN GState(g.out, g.code_offset,
                  /\ g.dchecks
                  /\ code_offsets[code.id] = method_offsets.code_offset
                  /\ DCheckCodeOffset(g))
      ELSE IF ~s1.ok THEN GState(s1, 0, g.dchecks /\ tentative = method_offsets.code_offset)
      ELSE IF ~s2.ok THEN GState(s2, 0, /\ g.dchecks
                                        /\ tentative = method_offsets.code_offset
                                        /\ g.code_offset + SizeOfU32 = s1.pos)
      ELSE GState(s2, g.code_offset + SizeOfU32 + code.size,
                  /\ g.dchecks
                  /\ tentative = method_offsets.code_offset
                  /\ g.code_offset + SizeOfU32 = s1.pos
                  /\ g.code_offset + SizeOfU32 + code.size = s2.pos)

\* a table (mapping table, vmap table or GC map) of the method: the payload,
\* unless deduplicated
WriteMappingTable(g, compiled_method, method_offsets, at) ==
  LET mapping_table == compiled_method.mapping_table
      recorded == method_offsets.mapping_table_offset
      s1 == WriteFullyAt(g.out, "mapping_table", mapping_table.id, mapping_table.size,
                         <<mapping_table.id>>, at)
  IN  IF Found(mapping_table_offsets, mapping_table) /\ g.code_offset # recorded
      THEN GState(g.out, g.code_offset,
                  /\ g.dchecks
                  /\ \/ mapping_table.size = 0 /\ recorded = 0
                     \/ mapping_table_offsets[mapping_table.id] = recorded
                  /\ DCheckCodeOffset(g))
      ELSE IF ~s1.ok
      THEN GState(s1, 0, /\ g.dchecks
                         /\ \/ mapping_table.size = 0 /\ recorded = 0
                            \/ g.code_offset = recorded)
      ELSE GState(s1, g.code_offset + mapping_table.size,
                  /\ g.dchecks
                  /\ \/ mapping_table.size = 0 /\ recorded = 0
                     \/ g.code_offset = recorded
                  /\ g.code_offset + mapping_table.size = s1.pos)

WriteVmapTable(g, compiled_method, method_offsets, at) ==
  LET vmap_table == compiled_method.vmap_table
      recorded == method_offsets.vmap_table_offset
      s1 == WriteFullyAt(g.out, "vmap_table", vmap_table.id, vmap_table.size,
                         <<vmap_table.id>>, at)
  IN  IF Found(vmap_table_offsets, vmap_table) /\ g.code_offset # recorded
      THEN GState(g.out, g.code_offset,
                  /\ g.dchecks
                  /\ \/ vmap_table.size = 0 /\ recorded = 0
                     \/ vmap_table_offsets[vmap_table.id] = recorded
                  /\ DCheckCodeOffset(g))
      ELSE IF ~s1.ok
      THEN GState(s1, 0, /\ g.dchecks
                         /\ \/ vmap_table.size = 0 /\ recorded = 0
                            \/ g.code_offset = recorded)
      ELSE GState(s1, g.code_offset + vmap_table.size,
                  /\ g.dchecks
                  /\ \/ vmap_table.size = 0 /\ recorded = 0
                     \/ g.code_offset = recorded
                  /\ g.code_offset + vmap_table.size = s1.pos)

\* (mutant) the GC map is written at every use
WriteGcMap_AlwaysEmit(g, compiled_method, method_offsets, at) ==
  LET gc_map == compiled_method.gc_map
      s1 == WriteFullyAt(g.out, "gc_map", gc_map.id, gc_map.size, <<gc_map.id>>, at)
  IN  IF ~s1.ok THEN GState(s1, 0, g.dchecks)
      ELSE GState(s1, g.code_offset + gc_map.size, g.dchecks)

WriteGcMap(g, compiled_method, method_offsets, at) ==
  LET gc_map == compiled_method.gc_map
      recorded == method_offsets.gc_map_offset
      s1 == WriteFullyAt(g.out, "gc_map", gc_map.id, gc_map.size, <<gc_map.id>>, at)
  IN  IF Found(gc_map_offsets, gc_map) /\ g.code_offset # recorded
      THEN GState(g.out, g.code_offset,
                  /\ g.dchecks
                  /\ \/ gc_map.size = 0 /\ recorded = 0
                     \/ gc_map_offsets[gc_map.id] = recorded
                  /\ DCheckCodeOffset(g))
      ELSE IF ~s1.ok
      THEN GState(s1, 0, /\ g.dchecks
                         /\ \/ gc_map.size = 0 /\ recorded = 0
                            \/ g.code_offset = recorded)
      ELSE GState(s1, g.code_offset + gc_map.size,
                  /\ g.dchecks
                  /\ \/ gc_map.size = 0 /\ recorded = 0
                     \/ g.code_offset = recorded
                  /\ g.code_offset + gc_map.size = s1.pos)

\* (mutant) the payload of the invoke stub is not written behind its size
WriteInvokeStub_NoPayload(g0, compiled_invoke_stub, method_offsets, at) ==
  LET g == SeekToAlignCode(g0)
      invoke_stub == compiled_invoke_stub.code
      tentative == g.code_offset + SizeOfU32 + compiled_invoke_stub.code_delta
      s1 == WriteFullyAt(g.out, "invoke_stub_size", invoke_stub.id, SizeOfU32,
                         <<invoke_stub.size>>, at)
      s2 == Seek(s1, invoke_stub.size, "kSeekCurrent")
  IN  IF g.code_offset = 0 THEN g
      ELSE IF Found(code_offsets, invoke_stub) /\ tentative # method_offsets.invoke_stub_offset
      THEN g
      ELSE IF ~s1.ok THEN GState(s1, 0, g.dchecks)
      ELSE GState(s2, g.code_offset + SizeOfU32 + invoke_stub.size, g.dchecks)

\* the invoke stub: the size prefix and the payload, unless deduplicated
WriteInvokeStub(g0, compiled_invoke_stub, method_offsets, at) ==
  LET g == SeekToAlignCode(g0)
      invoke_stub == compiled_invoke_stub.code
      tentative == g.code_offset + SizeOfU32 + compiled_invoke_stub.code_delta
      s1 == WriteFullyAt(g.out, "invoke_stub_size", invoke_stub.id, SizeOfU32,
                         <<invoke_stub.size>>, at)
      s2 == WriteFullyAt(s1, "invoke_stub", invoke_stub.id, invoke_stub.size,
                         <<invoke_stub.id>>, at)
  IN  IF g.code_offset = 0 THEN g
      ELSE IF Found(code_offsets, invoke_stub) /\ tentative # method_offsets.invoke_stub_offset
      THEN GState(g.out, g.code_offset,
                  /\ g.dchecks
                  /\ code_offsets[invoke_stub.id] = method_offsets.invoke_stub_offset)
      ELSE IF ~s1.ok THEN GState(s1, 0, g.dchecks /\ tentative = method_offsets.invoke_stub_offset)
      ELSE IF ~s2.ok THEN GState(s2, 0, /\ g.dchecks
                                        /\ tentative = method_offsets.invoke_stub_offset
                                        /\ g.code_offset + SizeOfU32 = s1.pos)
      ELSE GState(s2, g.code_offset + SizeOfU32 + invoke_stub.size,
                  /\ g.dchecks
                  /\ tentative = method_offsets.invoke_stub_offset
                  /\ g.code_offset + SizeOfU32 = s1.pos
                  /\ g.code_offset + SizeOfU32 + invoke_stub.size = s2.pos)

\* WriteCodeMethod: the stream, the returned code_offset (0 on failure) and the DCHECKs
WriteCodeMethodResult(g, is_static, method_idx, method_offsets, at) ==
  LET compiled_method == GetCompiledMethod(method_idx)
      compiled == compiled_method # NULL
      g1 == IF compiled THEN WriteMethodCode(g, compiled_method, method_offsets, at) ELSE g
      g2 == WriteMappingTable(g1, compiled_method, method_offsets, at)
      g3 == WriteVmapTable(g2, compiled_method, method_offsets, at)
      g4 == WriteGcMap(g3, compiled_method, method_offsets, at)
      g5 == IF ~compiled THEN g
            ELSE IF g1.code_offset = 0 THEN g1
            ELSE IF g2.code_offset = 0 THEN g2
            ELSE IF g3.code_offset = 0 THEN g3
            ELSE g4
      compiled_invoke_stub == FindInvokeStub(is_static, GetMethodShorty(method_idx))
  IN  IF g5.code_offset = 0 \/ compiled_invoke_stub = NULL THEN g5
      ELSE WriteInvokeStub(g5, compiled_invoke_stub, method_offsets, at)

\* ------------------------------------------------------------------------
\* OatWriter::Write
\* ------------------------------------------------------------------------

\* Write, up to the call of WriteCode
WriteTables ==
  /\ pc = "Write"
  /\ LET s1 == WriteHeaderResult(out)
         s2 == WriteTablesResult(s1)
     IN  IF ~s1.ok THEN out' = s1 /\ pc' = "Failed"
         ELSE IF ~s2.ok THEN out' = s2 /\ pc' = "Failed"
         ELSE out' = s2 /\ pc' = "WriteCode"
  /\ UNCHANGED <<inputs, methods, earlier, visits, offset, records, tables, loop, code_offset, dchecks, plan>>

\* (mutant) WriteCode uses the padding length up
WriteCode_ConsumesPadding ==
  /\ pc = "WriteCode"
  /\ LET g == WriteCodeResult(out)
     IN  /\ out' = g.out
         /\ code_offset' = g.code_offset
         /\ dchecks' = g.dchecks
         /\ pc' = IF g.code_offset = 0 THEN "Failed" ELSE "WriteCodeDexFiles"
  /\ i' = 0 /\ class_def_index' = 0 /\ oat_class_index' = 0 /\ class_def_method_index' = 0
  /\ executable_offset_padding_length' = 0
  /\ UNCHANGED <<inputs, methods, earlier, visits, offset, oat_header, oat_dex_files, oat_classes,
                 tables, plan>>

\* Write, the call of WriteCode and the test of its result
WriteCode ==
  /\ pc = "WriteCode"
  /\ LET g == WriteCodeResult(out)
     IN  /\ out' = g.out
         /\ code_offset' = g.code_offset
         /\ dchecks' = g.dchecks
         /\ pc' = IF g.code_offset = 0 THEN "Failed" ELSE "WriteCodeDexFiles"
  /\ i' = 0 /\ class_def_index' = 0 /\ oat_class_index' = 0 /\ class_def_method_index' = 0
  /\ UNCHANGED <<inputs, methods, earlier, visits, offset, records, tables, plan>>

\* (mutant) WriteCodeMethod is told of no method that it is static
WriteCodeMethod_NeverStatic ==
  /\ pc = "WriteCodeDexFiles"
  /\ AtMethod
  /\ LET method_offsets ==
           oat_classes[oat_class_index + 1].method_offsets[class_def_method_index + 1]
         is_static == FALSE
         g == WriteCodeMethodResult(GState(out, code_offset, dchecks), is_static,
                                    CurrentMethodIdx, method_offsets,
                                    <<oat_class_index, class_def_method_index>>)
     IN  /\ out' = g.out
         /\ code_offset' = g.code_offset
         /\ dchecks' = g.dchecks
         /\ pc' = IF g.code_offset = 0 THEN "Failed" ELSE pc
         /\ visits' = Append(visits, Visit("WriteCodeMethod",
                                           <<oat_class_index, class_def_method_index>>,
                                           CurrentMethodIdx, is_static, method_offsets))
  /\ class_def_method_index' = class_def_method_index + 1
  /\ UNCHANGED <<inputs, methods, earlier, offset, records, tables, i, class_def_index,
                 oat_class_index, plan>>

\* one call of WriteCodeMethod; a result of 0 is returned up to Write
WriteCodeMethod ==
  /\ pc = "WriteCodeDexFiles"
  /\ AtMethod
  /\ LET method_offsets ==
           oat_classes[oat_class_index + 1].method_offsets[class_def_method_index + 1]
         is_static == InDirectMethods /\ AccStatic(CurrentMethodIdx)
         g == WriteCodeMethodResult(GState(out, code_offset, dchecks), is_static,
                                    CurrentMethodIdx, method_offsets,
                                    <<oat_class_index, class_def_method_index>>)
     IN  /\ out' = g.out
         /\ code_offset' = g.code_offset
         /\ dchecks' = g.dchecks
         /\ pc' = IF g.code_offset = 0 THEN "Failed" ELSE pc
         /\ visits' = Append(visits, Visit("WriteCodeMethod",
                                           <<oat_class_index, class_def_method_index>>,
                                           CurrentMethodIdx, is_static, method_offsets))
  /\ class_def_method_index' = class_def_method_index + 1
  /\ UNCHANGED <<inputs, methods, earlier, offset, records, tables, i, class_def_index,
                 oat_class_index, plan>>

\* WriteCodeClassDef returns to WriteCodeDexFile
WriteCodeClassDef ==
  /\ pc = "WriteCodeDexFiles"
  /\ AtClassDefEnd
  /\ pc' = IF code_offset = 0 THEN "Failed" ELSE pc
  /\ class_def_index' = class_def_index + 1
  /\ oat_class_index' = oat_class_index + 1
  /\ class_def_method_index' = 0
  /\ UNCHANGED <<inputs, methods, earlier, visits, offset, records, tables, i, stream, plan>>

\* WriteCodeDexFile returns to WriteCodeDexFiles
WriteCodeDexFile ==
  /\ pc = "WriteCodeDexFiles"
  /\ AtDexFileEnd
  /\ pc' = IF code_offset = 0 THEN "Failed" ELSE pc
  /\ i' = i + 1
  /\ class_def_index' = 0
  /\ UNCHANGED <<inputs, methods, earlier, visits, offset, records, tables, oat_class_index, class_def_method_index,
                 stream, plan>>

\* WriteCodeDexFiles returns to Write, which returns
WriteCodeDexFiles ==
  /\ pc = "WriteCodeDexFiles"
  /\ AtDexFilesEnd
  /\ pc' = IF code_offset = 0 THEN "Failed" ELSE "Done"
  /\ UNCHANGED <<inputs, methods, earlier, visits, offset, records, tables, loop, stream, plan>>

Next ==
  \/ InitOatHeader
  \/ InitOatDexFiles
  \/ InitDexFiles
  \/ InitOatClasses
  \/ InitOatCode
  \/ InitOatCodeMethod
  \/ InitOatCodeClassDef
  \/ InitOatCodeDexFile
  \/ InitOatCodeDexFiles
  \/ WriteTables
  \/ WriteCode
  \/ WriteCodeMethod
  \/ WriteCodeClassDef
  \/ WriteCodeDexFile
  \/ WriteCodeDexFiles

Spec == Init /\ [][Next]_vars

\* Create on a stream of which one operation may fail
FailDexFileLists == UNION {DexFileSeqsOfSize(n) : n \in 0 .. (MaxInputSize - 1)}

InitFail ==
  /\ dex_files \in FailDexFileLists
  /\ image_file_location_size \in ImageFileLocationSizes
  /\ fail_at \in 0 .. MaxFailAt
  /\ is_image = FALSE
  /\ InitWriter

SpecFail == InitFail /\ [][Next]_vars

\* Create with a compiler that may be in image mode
InitImage ==
  /\ dex_files \in DexFileLists
  /\ image_file_location_size \in ImageFileLocationSizes
  /\ fail_at = 0
  /\ is_image \in BOOLEAN
  /\ InitWriter

SpecImage == InitImage /\ [][Next]_vars

\* what a call of Create leaves behind: the constructor's results and the
\* writes the stream received
Results ==
  [offset |-> offset, oat_header |-> oat_header, oat_dex_files |-> oat_dex_files,
   oat_classes |-> oat_classes,
   executable_offset_padding_length |-> executable_offset_padding_length,
   tables |-> tables, log |-> out.log, pos |-> out.pos]

\* (mutant) the deduplication tables outlive the writer
Rerun_KeepTables ==
  /\ pc = "Done" /\ run = 1
  /\ run' = 2
  /\ first_run' = Results
  /\ pc' = "InitOatHeader"
  /\ offset' = 0
  /\ oat_header' = NULL
  /\ oat_dex_files' = <<>>
  /\ oat_classes' = <<>>
  /\ executable_offset_padding_length' = 0
  /\ i' = 0 /\ class_def_index' = 0 /\ oat_class_index' = 0 /\ class_def_method_index' = 0
  /\ out' = NewStream
  /\ code_offset' = 0
  /\ dchecks' = TRUE
  /\ plan' = <<>>
  /\ visits' = <<>>
  /\ UNCHANGED <<inputs, methods, tables>>

\* Create is called a second time, with the same arguments and a new stream:
\* a new OatWriter is constructed
Rerun ==
  /\ pc = "Done" /\ run = 1
  /\ run' = 2
  /\ first_run' = Results
  /\ pc' = "InitOatHeader"
  /\ offset' = 0
  /\ oat_header' = NULL
  /\ oat_dex_files' = <<>>
  /\ oat_classes' = <<>>
  /\ executable_offset_padding_length' = 0
  /\ code_offsets' = <<>>
  /\ mapping_table_offsets' = <<>>
  /\ vmap_table_offsets' = <<>>
  /\ gc_map_offsets' = <<>>
  /\ i' = 0 /\ class_def_index' = 0 /\ oat_class_index' = 0 /\ class_def_method_index' = 0
  /\ out' = NewStream
  /\ code_offset' = 0
  /\ dchecks' = TRUE
  /\ plan' = <<>>
  /\ visits' = <<>>
  /\ UNCHANGED <<inputs, methods>>

NextTwice == Next \/ Rerun

SpecTwice == Init /\ [][NextTwice]_vars

\* ------------------------------------------------------------------------
\* Vocabulary of the properties
\* ------------------------------------------------------------------------

Range(seq) == {seq[k] : k \in DOMAIN seq}

\* the constructor has returned
Built == pc \in {"Write", "WriteCode", "WriteCodeDexFiles", "Done", "Failed"}
\* Write has returned true
WriteSucceeded == pc = "Done"

\* the planning pass placed the item (kind, idx) at pos
Planned(kind, idx, pos) ==
  \E p \in Range(plan) : p.kind = kind /\ p.idx = idx /\ p.val = <<pos>>
\* ... while it visited the method at
PlannedAt(kind, idx, pos, at) ==
  \E p \in Range(plan) : p.kind = kind /\ p.idx = idx /\ p.val = <<pos>> /\ p.at = at

BlobKinds == {"code", "mapping_table", "vmap_table", "gc_map", "invoke_stub"}
TableKinds == {"mapping_table", "vmap_table", "gc_map"}

\* the entries of the stream's log of one kind
Emitted(kind) == {e \in Range(out.log) : e.kind = kind}

\* the writing pass stands right behind WriteCode / right behind a WriteCodeMethod
BehindWriteCode ==
  /\ pc = "WriteCodeDexFiles"
  /\ i = 0 /\ class_def_index = 0 /\ class_def_method_index = 0
BehindWriteCodeMethod ==
  /\ pc = "WriteCodeDexFiles"
  /\ class_def_method_index > 0

\* ------------------------------------------------------------------------
\* C1
\* ------------------------------------------------------------------------

\* C1: while every stream operation succeeds, the stream position at each
\* checkpoint of Write equals the offset the planning pass computed for it:
\* every OatDexFile record, DEX payload, OatClass record and emitted blob is
\* written at its planned offset, the executable section starts at the planned
\* executable offset, the position behind each WriteCodeMethod is the cursor
\* behind the matching InitOatCodeMethod, and no DCHECK of the writing pass fails.
C1_WritesAtPlannedOffsets ==
  /\ dchecks
  /\ \A e \in Range(out.log) :
       /\ e.kind = "dex_file_location_size" => Planned("OatDexFile", e.idx, e.pos)
       /\ e.kind = "DexFile" => Planned("DexFile", e.idx, e.pos)
       /\ e.kind = "status" => Planned("OatClass", e.idx, e.pos)
       /\ e.kind = "code_size" => PlannedAt("code", e.idx, e.pos, e.at)
       /\ e.kind = "code" => PlannedAt("code", e.idx, e.pos - SizeOfU32, e.at)
       /\ e.kind = "invoke_stub_size" => PlannedAt("invoke_stub", e.idx, e.pos, e.at)
       /\ e.kind = "invoke_stub" => PlannedAt("invoke_stub", e.idx, e.pos - SizeOfU32, e.at)
       /\ e.kind \in TableKinds => PlannedAt(e.kind, e.idx, e.pos, e.at)
  /\ BehindWriteCode => Planned("executable", 0, out.pos)
  /\ BehindWriteCodeMethod =>
       \E p \in Range(plan) :
         /\ p.kind = "method_end"
         /\ p.at = <<oat_class_index, class_def_method_index - 1>>
         /\ p.val = <<out.pos>>

\* Write has returned true after emitting code and tables, with a later use of
\* a code blob deduplicated and an alignment seek between two methods
C1_Witness ==
  /\ WriteSucceeded
  /\ Emitted("mapping_table") # {}
  /\ Emitted("invoke_stub") # {}
  /\ Cardinality(Emitted("code")) = 1
  /\ \E c \in Range(oat_classes) :
       /\ Len(c.method_offsets) = 2
       /\ c.method_offsets[1].code_offset = c.method_offsets[2].code_offset
       /\ c.method_offsets[1].code_offset # 0

\* ------------------------------------------------------------------------
\* C2
\* ------------------------------------------------------------------------

\* C2: when Write returns true, the stream position is the final offset of the
\* planning pass (the value InitOatCodeDexFiles returned).
C2_PositionIsFinalOffset == WriteSucceeded => out.pos = offset

\* Write has returned true for two methods, the second of which reuses the
\* first one's invoke stub
C2_Witness ==
  /\ WriteSucceeded
  /\ Cardinality(Emitted("invoke_stub")) = 1
  /\ \E c \in Range(oat_classes) :
       /\ Len(c.method_offsets) = 2
       /\ c.method_offsets[1].invoke_stub_offset = c.method_offsets[2].invoke_stub_offset
       /\ c.method_offsets[1].invoke_stub_offset # 0

\* ------------------------------------------------------------------------
\* C3
\* ------------------------------------------------------------------------

Max(S) == CHOOSE x \in S : \A y \in S : y <= x

\* one past the highest byte index passed to WriteFully
PhysicalSize ==
  LET ends == {e.pos + e.len : e \in {w \in Range(out.log) : w.len > 0}}
  IN  IF ends = {} THEN 0 ELSE Max(ends)

\* one past the last byte the planning pass reserved for a record or a payload
\* (the cursor may stand further on, behind padding or an alignment)
PlannedEnd ==
  LET ends == {p.val[1] + p.len : p \in {q \in Range(plan) : q.len > 0}}
  IN  Max(ends \cup {SizeOfOatHeader + image_file_location_size})

\* C3 as claimed: when Write returns true, the physical size of the output is
\* the final offset of the planning pass.
C3_Original == WriteSucceeded => PhysicalSize = offset

\* C3: when Write returns true, the physical size of the output is the end of
\* the last range the planning pass reserved for bytes; it never exceeds the
\* final offset and falls short of it exactly by the seeked-over gap the
\* planning cursor ends on (the executable-gap pad, a trailing alignment).
C3_PhysicalSizeIsPlannedEnd ==
  WriteSucceeded => PhysicalSize = PlannedEnd /\ PhysicalSize <= offset

\* Write has returned true behind a last method whose blobs are all
\* deduplicated, so it ended on that method's alignment seek
C3_Witness ==
  /\ WriteSucceeded
  /\ Emitted("code") # {}
  /\ PhysicalSize < offset
  /\ offset > oat_header.executable_offset
  /\ \E c \in Range(oat_classes) :
       /\ Len(c.method_offsets) = 2
       /\ c.method_offsets[1] = c.method_offsets[2]
       /\ c.method_offsets[1].code_offset # 0

\* ------------------------------------------------------------------------
\* The methods in iteration order
\* ------------------------------------------------------------------------

RECURSIVE ClassDefsFrom(_)
ClassDefsFrom(k) ==
  IF k > Len(dex_files) THEN <<>> ELSE dex_files[k].class_defs \o ClassDefsFrom(k + 1)

\* the class-defs of all DEX files, flattened
AllClassDefs == ClassDefsFrom(1)

\* the uses: (class ordinal, method index), both counted from 0
Uses ==
  UNION {{<<c - 1, m - 1>> : m \in DOMAIN ClassMethods(AllClassDefs[c])} :
           c \in DOMAIN AllClassDefs}

Before(u, v) == u[1] < v[1] \/ (u[1] = v[1] /\ u[2] < v[2])

UseClassDef(u) == AllClassDefs[u[1] + 1]
UseMethodIdx(u) == ClassMethods(UseClassDef(u))[u[2] + 1]
UseIsStatic(u) == u[2] < NumDirectMethods(UseClassDef(u)) /\ AccStatic(UseMethodIdx(u))
UseCompiledMethod(u) == GetCompiledMethod(UseMethodIdx(u))
UseInvokeStub(u) == FindInvokeStub(UseIsStatic(u), GetMethodShorty(UseMethodIdx(u)))

\* the blob the method at u has of a kind, or NULL
UseBlob(u, kind) ==
  IF kind = "invoke_stub"
  THEN (IF UseInvokeStub(u) = NULL THEN NULL ELSE UseInvokeStub(u).code)
  ELSE IF UseCompiledMethod(u) = NULL THEN NULL
  ELSE CASE kind = "code" -> UseCompiledMethod(u).code
         [] kind = "mapping_table" -> UseCompiledMethod(u).mapping_table
         [] kind = "vmap_table" -> UseCompiledMethod(u).vmap_table
         [] kind = "gc_map" -> UseCompiledMethod(u).gc_map

\* the code_delta that goes with the method's blob of a kind
UseDelta(u, kind) ==
  CASE kind = "code" -> UseCompiledMethod(u).code_delta
    [] kind = "invoke_stub" -> UseInvokeStub(u).code_delta
    [] OTHER -> 0

\* the OatMethodOffsets of the method at u and its field for a kind
UseRecord(u) == oat_classes[u[1] + 1].method_offsets[u[2] + 1]
Recorded(u, kind) ==
  CASE kind = "code" -> UseRecord(u).code_offset
    [] kind = "mapping_table" -> UseRecord(u).mapping_table_offset
    [] kind = "vmap_table" -> UseRecord(u).vmap_table_offset
    [] kind = "gc_map" -> UseRecord(u).gc_map_offset
    [] kind = "invoke_stub" -> UseRecord(u).invoke_stub_offset

\* the uses of the blob of u, and the first of them in iteration order
UsesOfBlob(u, kind) ==
  {v \in Uses : UseBlob(v, kind) # NULL /\ UseBlob(v, kind).id = UseBlob(u, kind).id}
FirstUse(u, kind) ==
  CHOOSE v \in UsesOfBlob(u, kind) : \A w \in UsesOfBlob(u, kind) : w = v \/ Before(v, w)

\* the dedup table a kind of blob is interned in
TableOf(kind) ==
  CASE kind \in {"code", "invoke_stub"} -> code_offsets
    [] kind = "mapping_table" -> mapping_table_offsets
    [] kind = "vmap_table" -> vmap_table_offsets
    [] kind = "gc_map" -> gc_map_offsets

\* ------------------------------------------------------------------------
\* C4
\* ------------------------------------------------------------------------

CodeKinds == {"code", "invoke_stub"}

\* C4 as claimed: behind the planning pass the executable offset is a multiple
\* of the page size and every non-zero code_offset and invoke_stub_offset,
\* less the size prefix and the code_delta of that method (that stub), is a
\* multiple of the code alignment.
C4_Original ==
  Built =>
    /\ oat_header.executable_offset % kPageSize = 0
    /\ \A u \in Uses : \A kind \in CodeKinds :
         Recorded(u, kind) # 0 =>
           (Recorded(u, kind) - SizeOfU32 - UseDelta(u, kind)) % kArmAlignment = 0

\* C4: behind the planning pass the executable offset is a multiple of the
\* page size and every non-zero code_offset and invoke_stub_offset, less the
\* size prefix and the code_delta of the method at whose visit the blob was
\* interned (its first use), is a multiple of the code alignment; that is the
\* method's own code_delta when the two agree.
C4_AlignedUnderInterningDelta ==
  Built =>
    /\ oat_header.executable_offset % kPageSize = 0
    /\ \A u \in Uses : \A kind \in CodeKinds :
         Recorded(u, kind) # 0 =>
           /\ (Recorded(u, kind) - SizeOfU32 - UseDelta(FirstUse(u, kind), kind))
                % kArmAlignment = 0
           /\ UseDelta(u, kind) = UseDelta(FirstUse(u, kind), kind) =>
                (Recorded(u, kind) - SizeOfU32 - UseDelta(u, kind)) % kArmAlignment = 0

\* the planning pass has given a method the code_offset of a blob that was
\* interned at the visit of a method with another code_delta, and a stub
\* offset behind an alignment
C4_Witness ==
  /\ Built
  /\ \E u \in Uses :
       /\ Recorded(u, "code") # 0
       /\ FirstUse(u, "code") # u
       /\ UseDelta(FirstUse(u, "code"), "code") # UseDelta(u, "code")
       /\ Recorded(u, "invoke_stub") # 0
       /\ \E p \in Range(plan) :
            p.kind = "gc_map" /\ p.at = u /\ (p.val[1] + p.len) % kArmAlignment # 0

\* ------------------------------------------------------------------------
\* C5
\* ------------------------------------------------------------------------

Overlap(e, f) == e.pos < f.pos + f.len /\ f.pos < e.pos + e.len

\* C5: every dex_file_offset is a multiple of 4, and when Write returns true
\* the bytes at [dex_file_offset, dex_file_offset + file_size) are those of the
\* DEX file: written once, at that offset, and overlapped by no other write.
C5_DexPayloadAlignedAndIntact ==
  /\ pc \notin {"InitOatHeader", "InitOatDexFiles", "InitDexFiles"} =>
       \A k \in DOMAIN oat_dex_files : oat_dex_files[k].dex_file_offset % 4 = 0
  /\ WriteSucceeded =>
       \A k \in DOMAIN oat_dex_files :
         \E e \in Emitted("DexFile") :
           /\ e.idx = k - 1 /\ e.val = <<k - 1>>
           /\ e.pos = oat_dex_files[k].dex_file_offset
           /\ e.len = dex_files[k].file_size
           /\ \A f \in Range(out.log) : f.len > 0 /\ Overlap(e, f) => f = e

\* Write has returned true with two embedded DEX files, the second of them
\* behind padding
C5_Witness ==
  /\ WriteSucceeded
  /\ Len(oat_dex_files) = 2
  /\ oat_dex_files[2].dex_file_offset > oat_dex_files[1].dex_file_offset + dex_files[1].file_size
  /\ Len(oat_classes) > 0

\* ------------------------------------------------------------------------
\* C6
\* ------------------------------------------------------------------------

\* the offset a blob planned at pos is interned at
InternedOffset(kind, blob, pos, delta) ==
  IF kind \in CodeKinds THEN pos + SizeOfU32 + delta
  ELSE IF blob.size = 0 THEN 0
  ELSE pos

\* C6: behind the planning pass, the field of every method that refers to a
\* blob holds the offset the blob is interned at in its deduplication table;
\* all methods sharing the blob record that one value, which is the offset
\* assigned at the blob's first use in iteration order.
C6_FieldsHoldInternedOffset ==
  Built =>
    \A u \in Uses : \A kind \in BlobKinds :
      UseBlob(u, kind) # NULL =>
        LET blob == UseBlob(u, kind)
            first == FirstUse(u, kind)
        IN  /\ Found(TableOf(kind), blob)
            /\ Recorded(u, kind) = TableOf(kind)[blob.id]
            /\ Recorded(u, kind) = Recorded(first, kind)
            /\ \E p \in Range(plan) :
                 /\ p.kind = kind /\ p.idx = blob.id /\ p.at = first
                 /\ Recorded(u, kind) =
                      InternedOffset(kind, blob, p.val[1], UseDelta(first, kind))

\* the planning pass has visited two methods that share a code blob and a
\* mapping table, the second being a later use of both
C6_Witness ==
  /\ Built
  /\ \E u \in Uses :
       /\ UseBlob(u, "code") # NULL
       /\ FirstUse(u, "code") # u
       /\ FirstUse(u, "mapping_table") # u
       /\ Recorded(u, "mapping_table") # 0
       /\ Recorded(u, "code") # 0

\* ------------------------------------------------------------------------
\* C7
\* ------------------------------------------------------------------------

\* the pairs of methods whose code blobs are the same object
SharingCode ==
  {uv \in Uses \X Uses :
     /\ UseBlob(uv[1], "code") # NULL /\ UseBlob(uv[2], "code") # NULL
     /\ UseBlob(uv[1], "code").id = UseBlob(uv[2], "code").id}

\* the code_offset of a method less its own code_delta and the size prefix
OwnCodeStart(u) == Recorded(u, "code") - UseDelta(u, "code") - SizeOfU32

\* C7 as claimed: any two methods whose code blobs are the same object have
\* equal code_offsets after subtracting each method's own code_delta and the
\* size-prefix width.
C7_Original ==
  Built => \A uv \in SharingCode : OwnCodeStart(uv[1]) = OwnCodeStart(uv[2])

\* C7: any two methods whose code blobs are the same object have equal
\* code_offsets as recorded; after subtracting each method's own code_delta
\* and the size-prefix width the values are equal exactly when the two
\* methods report the same code_delta.
C7_EqualAsRecorded ==
  Built =>
    \A uv \in SharingCode :
      /\ Recorded(uv[1], "code") = Recorded(uv[2], "code")
      /\ OwnCodeStart(uv[1]) = OwnCodeStart(uv[2])
           <=> UseDelta(uv[1], "code") = UseDelta(uv[2], "code")

\* the planning pass has visited two methods that share a code blob and
\* report different code_deltas
C7_Witness ==
  /\ Built
  /\ \E uv \in SharingCode :
       /\ uv[1] # uv[2]
       /\ UseDelta(uv[1], "code") # UseDelta(uv[2], "code")
       /\ Recorded(uv[1], "code") # 0

\* ------------------------------------------------------------------------
\* C8
\* ------------------------------------------------------------------------

\* the kind of the size prefix written before a payload of a kind, if any
SizeKind(kind) ==
  CASE kind = "code" -> "code_size"
    [] kind = "invoke_stub" -> "invoke_stub_size"
    [] OTHER -> "none"

\* C8: when Write returns true, every blob of non-zero size is emitted exactly
\* once, at its first use in iteration order and at the offset recorded there
\* (code and stubs with their size prefix in front); a later use of the blob
\* emits nothing.
C8_EmittedOnceAtFirstUse ==
  WriteSucceeded =>
    \A u \in Uses : \A kind \in BlobKinds :
      UseBlob(u, kind) # NULL /\ UseBlob(u, kind).size > 0 =>
        LET blob == UseBlob(u, kind)
            first == FirstUse(u, kind)
            copies == {e \in Emitted(kind) : e.idx = blob.id}
            sizes == {e \in Emitted(SizeKind(kind)) : e.idx = blob.id}
        IN  /\ Cardinality(copies) = 1
            /\ \A e \in copies :
                 /\ e.at = first
                 /\ e.len = blob.size
                 /\ Recorded(first, kind) =
                      IF kind \in CodeKinds THEN e.pos + UseDelta(first, kind) ELSE e.pos
            /\ kind \in CodeKinds =>
                 /\ Cardinality(sizes) = 1
                 /\ \A e \in sizes : e.at = first /\ e.val = <<blob.size>>
            /\ u # first =>
                 \A e \in Emitted(kind) \cup Emitted(SizeKind(kind)) :
                   e.at # u \/ e.idx # blob.id

\* Write has returned true for methods of which a later one shares its code,
\* a table and its invoke stub with an earlier one
C8_Witness ==
  /\ WriteSucceeded
  /\ \E u \in Uses :
       /\ UseBlob(u, "code") # NULL
       /\ FirstUse(u, "code") # u
  /\ \E u \in Uses :
       /\ UseBlob(u, "gc_map") # NULL /\ UseBlob(u, "gc_map").size > 0
       /\ FirstUse(u, "gc_map") # u
  /\ \E u \in Uses :
       /\ UseBlob(u, "invoke_stub") # NULL
       /\ FirstUse(u, "invoke_stub") # u

\* ------------------------------------------------------------------------
\* C9
\* ------------------------------------------------------------------------

\* the range e of the stream is the range f of the checksum
SameRange(e, f) ==
  /\ e.kind = f.kind /\ e.idx = f.idx /\ e.len = f.len /\ e.val = f.val /\ e.at = f.at

Folded == Range(oat_header.adler32_checksum)

\* the header is folded but for its checksum field: its executable offset by
\* SetExecutableOffset, its other fields by the constructor
HeaderFolded(e) ==
  /\ \E f \in Folded : f.kind = "oat_header" /\ f.len = e.len - 2 * SizeOfU32
  /\ \E f \in Folded : f.kind = "executable_offset" /\ f.len = SizeOfU32 /\ f.val = e.val

\* the kinds of ranges Write emits that the planning pass never folds
UnfoldedKinds == {"DexFile", "code_size", "invoke_stub_size"}

\* C9 as claimed: when Write returns true, every byte range it emitted has
\* been folded into the header checksum by the planning pass.
C9_Original ==
  WriteSucceeded =>
    \A e \in Range(out.log) :
      e.len > 0 =>
        IF e.kind = "oat_header" THEN HeaderFolded(e)
        ELSE \E f \in Folded : SameRange(e, f)

\* C9: when Write returns true, the ranges folded into the header checksum are
\* the ranges Write emitted other than the checksum field, the embedded DEX
\* payloads and the size prefixes of code and invoke stubs: each other range
\* emitted was folded with the same content, none of the DEX payloads and size
\* prefixes was, and every non-empty range folded was emitted.
C9_FoldedButDexAndSizes ==
  WriteSucceeded =>
    /\ \A e \in Range(out.log) :
         e.len > 0 =>
           IF e.kind = "oat_header" THEN HeaderFolded(e)
           ELSE IF e.kind \in UnfoldedKinds THEN \A f \in Folded : f.kind # e.kind
           ELSE \E f \in Folded : SameRange(e, f)
    /\ \A f \in Folded :
         f.len > 0 /\ f.kind \notin {"oat_header", "executable_offset"} =>
           \E e \in Range(out.log) : SameRange(e, f)

\* Write has returned true after emitting an image location, a DEX payload,
\* code with its size prefix, tables and a stub, with a duplicate left out
C9_Witness ==
  /\ WriteSucceeded
  /\ image_file_location_size > 0
  /\ Emitted("DexFile") # {}
  /\ Emitted("code_size") # {}
  /\ Emitted("vmap_table") # {}
  /\ Emitted("invoke_stub") # {}
  /\ \E u \in Uses : UseBlob(u, "code") # NULL /\ FirstUse(u, "code") # u

\* ------------------------------------------------------------------------
\* C10
\* ------------------------------------------------------------------------

OatDexFileKinds ==
  {"dex_file_location_size", "dex_file_location_data", "dex_file_location_checksum",
   "dex_file_offset", "methods_offsets"}
OatClassKinds == {"status", "method_offsets"}

\* a sequence of ranges as their kinds, indices, extents and contents
RECURSIVE Ranges(_)
Ranges(seq) ==
  IF seq = <<>> THEN <<>>
  ELSE <<ItemAt(Head(seq).kind, Head(seq).idx, Head(seq).len, Head(seq).val, Head(seq).at)>>
         \o Ranges(Tail(seq))

\* the non-empty ranges of a sequence whose kinds are in kinds
RECURSIVE Only(_, _)
Only(seq, kinds) ==
  IF seq = <<>> THEN <<>>
  ELSE (IF Head(seq).kind \in kinds /\ Head(seq).len > 0 THEN <<Head(seq)>> ELSE <<>>)
         \o Only(Tail(seq), kinds)

\* the ranges folded by the planning pass and the ranges emitted by Write, in
\* order, of the kinds that are both folded and emitted behind the header
FoldSeq(kinds) == Only(oat_header.adler32_checksum, kinds)
EmitSeq(kinds) == Only(Ranges(out.log), kinds)
ChecksummedKinds == OatDexFileKinds \cup OatClassKinds \cup BlobKinds

\* C10 as claimed: when Write returns true, the sequence of ranges the planning
\* pass folded into the checksum is, in order and in extent, the sequence of
\* checksummed ranges Write emitted.
C10_Original == WriteSucceeded => FoldSeq(ChecksummedKinds) = EmitSeq(ChecksummedKinds)

\* C10: when Write returns true, the ranges folded and the ranges emitted agree
\* in order, extent and content within the OatDexFile records, within the
\* OatClass records and within the blobs; across them the order is the same
\* exactly when no blob is emitted, since the planning pass folds each OatClass
\* behind the blobs of its methods and Write emits every OatClass before any blob.
C10_SameOrderWithinGroups ==
  WriteSucceeded =>
    /\ FoldSeq(OatDexFileKinds) = EmitSeq(OatDexFileKinds)
    /\ FoldSeq(OatClassKinds) = EmitSeq(OatClassKinds)
    /\ FoldSeq(BlobKinds) = EmitSeq(BlobKinds)
    /\ FoldSeq(ChecksummedKinds) = EmitSeq(ChecksummedKinds) <=> EmitSeq(BlobKinds) = <<>>

\* Write has returned true for two classes, the first with emitted blobs
C10_Witness ==
  /\ WriteSucceeded
  /\ Len(oat_classes) >= 2
  /\ \E e \in Emitted("code") : e.at[1] = 0
  /\ Emitted("invoke_stub") # {}

\* ------------------------------------------------------------------------
\* C11
\* ------------------------------------------------------------------------

\* the number of class-defs in the DEX files before DEX k (1-based)
RECURSIVE ClassDefsBefore(_)
ClassDefsBefore(k) ==
  IF k <= 1 THEN 0 ELSE ClassDefsBefore(k - 1) + NumClassDefs(dex_files[k - 1])

\* the (DEX, class-def) pairs, DEX 1-based and class-def 0-based
ClassPairs ==
  {kc \in (DOMAIN dex_files) \X (0 .. MaxInputSize) : kc[2] < NumClassDefs(dex_files[kc[1]])}

\* the flattened ordinal of a pair
Ordinal(kc) == ClassDefsBefore(kc[1]) + kc[2]

\* C11: behind the planning pass there is one OatClass per class-def of every
\* DEX file; the OatClass at the flattened ordinal of a (DEX, class-def) pair
\* is the one made for that pair, both passes stand at that ordinal while they
\* visit the pair, and methods_offsets[c] of the DEX's record is the offset at
\* which Write writes that OatClass.
C11_OatClassPerClassDef ==
  /\ Built =>
       /\ Len(oat_classes) = ClassDefsBefore(Len(dex_files) + 1)
       /\ \A kc \in ClassPairs :
            LET oat_class == oat_classes[Ordinal(kc) + 1]
            IN  /\ oat_class.status = ClassStatus(kc[1] - 1, kc[2])
                /\ Len(oat_class.method_offsets) = NumMethods(GetClassDef(dex_files[kc[1]], kc[2]))
                /\ Planned("OatClass", Ordinal(kc), oat_dex_files[kc[1]].methods_offsets[kc[2] + 1])
  /\ pc \in {"InitOatCodeDexFiles", "WriteCodeDexFiles"} /\ i < Len(dex_files) =>
       oat_class_index = ClassDefsBefore(i + 1) + class_def_index
  /\ pc \in {"WriteCode", "WriteCodeDexFiles", "Done"} =>
       \A kc \in ClassPairs :
         \E e \in Emitted("status") :
           /\ e.idx = Ordinal(kc)
           /\ e.pos = oat_dex_files[kc[1]].methods_offsets[kc[2] + 1]
           /\ e.val = <<oat_classes[Ordinal(kc) + 1].status>>

\* Write has returned true for two DEX files with a class each
C11_Witness ==
  /\ WriteSucceeded
  /\ Len(dex_files) = 2
  /\ NumClassDefs(dex_files[1]) = 1 /\ NumClassDefs(dex_files[2]) = 1
  /\ Len(oat_classes) = 2

\* ------------------------------------------------------------------------
\* C12
\* ------------------------------------------------------------------------

\* C12: the status of every OatClass is the compiled class's status if the
\* compiler has a compiled class, also when the verifier rejected the class;
\* otherwise error if the verifier rejected it; otherwise not-ready.  Whatever
\* the status, its method_offsets has one slot per direct and virtual method,
\* and none when the class has no class data.
C12_StatusAndSlots ==
  Built =>
    \A kc \in ClassPairs :
      LET oat_class == oat_classes[Ordinal(kc) + 1]
          class_def == GetClassDef(dex_files[kc[1]], kc[2])
          compiled_class == GetCompiledClass(kc[1] - 1, kc[2])
          rejected == IsClassRejected(kc[1] - 1, kc[2])
      IN  /\ compiled_class # NULL => oat_class.status = compiled_class.status
          /\ compiled_class = NULL /\ rejected => oat_class.status = kStatusError
          /\ compiled_class = NULL /\ ~rejected => oat_class.status = kStatusNotReady
          /\ class_def.has_data =>
               Len(oat_class.method_offsets) = Len(class_def.direct) + Len(class_def.virtual)
          /\ ~class_def.has_data => Len(oat_class.method_offsets) = 0

\* the planning pass has made the OatClass of a class that is both compiled
\* and rejected by the verifier and has a method
C12_Witness ==
  /\ Built
  /\ \E kc \in ClassPairs :
       /\ GetCompiledClass(kc[1] - 1, kc[2]) # NULL
       /\ IsClassRejected(kc[1] - 1, kc[2])
       /\ Len(oat_classes[Ordinal(kc) + 1].method_offsets) > 0

\* ------------------------------------------------------------------------
\* C13
\* ------------------------------------------------------------------------

\* the methods the compiler has no compiled method for
Uncompiled == {u \in Uses : UseCompiledMethod(u) = NULL}

\* the blobs the planning pass placed at the visit of the method at u
PlannedFor(u) == {p \in Range(plan) : p.at = u /\ p.kind \in BlobKinds}

\* C13 as claimed: for a method without a compiled method the planning pass
\* places no code and stores a record whose fields are all 0.
C13_Original ==
  Built =>
    \A u \in Uncompiled :
      /\ UseRecord(u) = OatMethodOffsets(0, 0, 0, 0, 0, 0, 0, 0)
      /\ PlannedFor(u) = {}

\* C13: for a method without a compiled method the planning pass places no
\* method code and no table, and stores code offset, spill masks and the
\* mapping-table, vmap-table and GC-map offsets as 0; the frame size is the
\* stack alignment, and the invoke stub is looked up all the same: its offset
\* is 0 only if there is no stub for the method's kind and shorty, and the
\* stub's code is placed at this method if the stub is new.
C13_UncompiledRecord ==
  Built =>
    \A u \in Uncompiled :
      LET r == UseRecord(u)
      IN  /\ r.code_offset = 0
          /\ r.core_spill_mask = 0 /\ r.fp_spill_mask = 0
          /\ r.mapping_table_offset = 0 /\ r.vmap_table_offset = 0 /\ r.gc_map_offset = 0
          /\ r.frame_size_in_bytes = kStackAlignment
          /\ r.invoke_stub_offset = 0 <=> UseInvokeStub(u) = NULL
          /\ \A p \in PlannedFor(u) : p.kind = "invoke_stub"
          /\ PlannedFor(u) # {} <=>
               UseInvokeStub(u) # NULL /\ FirstUse(u, "invoke_stub") = u

\* the planning pass has visited a method without compiled code that has an
\* invoke stub, and one that has none
C13_Witness ==
  /\ Built
  /\ \E u \in Uncompiled : UseRecord(u).invoke_stub_offset # 0 /\ PlannedFor(u) # {}
  /\ \E u \in Uncompiled : UseRecord(u).invoke_stub_offset = 0

\* ------------------------------------------------------------------------
\* C14
\* ------------------------------------------------------------------------

\* a stream operation of Write has failed: a WriteFully returned false or a
\* Seek returned another position than the expected one
FailureHappened == fail_at > 0 /\ out.ops >= fail_at

\* C14: once a WriteFully or a Seek of Write has failed, Write has returned
\* false and has made no further stream operation; Write returns true only if
\* every stream operation it made succeeded, and it returns false only if one
\* failed.
C14_FailureIsFatalAndOnlyFailure ==
  /\ FailureHappened => pc = "Failed" /\ out.ops = fail_at
  /\ pc = "Done" => ~FailureHappened
  /\ pc = "Failed" => FailureHappened

\* Write has returned false because the seek to the alignment of an invoke
\* stub failed, behind written code
C14_Witness ==
  /\ pc = "Failed"
  /\ out.ret = -1
  /\ Emitted("code") # {}
  /\ oat_class_index = 0 /\ class_def_method_index = 1

\* ------------------------------------------------------------------------
\* C15
\* ------------------------------------------------------------------------

\* the visits of the method index m, and the last of them
UsesOfMethod(m) == {u \in Uses : UseMethodIdx(u) = m}
LastUse(m) ==
  CHOOSE u \in UsesOfMethod(m) : \A w \in UsesOfMethod(m) : w = u \/ Before(w, u)

\* C15: in image mode the planning pass leaves in the runtime record of every
\* method it visited the frame size, the spill masks and the mapping-table,
\* vmap-table, GC-map and invoke-stub offsets of the method's OatMethodOffsets;
\* it leaves the code offset there iff the method is not static, or is a
\* constructor, or its declaring class is initialized, and the static-method
\* resolution trampoline instead of a code offset otherwise.  Outside image
\* mode no runtime record is modified.
C15_ImageModeRecords ==
  /\ ~is_image => \A m \in MethodIdxs : methods[m] = LoadedMethod
  /\ is_image /\ Built =>
       \A m \in MethodIdxs :
         IF UsesOfMethod(m) = {} THEN methods[m] = LoadedMethod
         ELSE LET r == UseRecord(LastUse(m))
                  method == methods[m]
              IN  /\ method.frame_size_in_bytes = r.frame_size_in_bytes
                  /\ method.core_spill_mask = r.core_spill_mask
                  /\ method.fp_spill_mask = r.fp_spill_mask
                  /\ method.oat_mapping_table_offset = r.mapping_table_offset
                  /\ method.oat_vmap_table_offset = r.vmap_table_offset
                  /\ method.oat_native_gc_map_offset = r.gc_map_offset
                  /\ method.oat_invoke_stub_offset = r.invoke_stub_offset
                  /\ method.code = OatCodeOffset(r.code_offset) <=>
                       \/ ~IsStatic(m) \/ IsConstructor(m) \/ DeclaringClassIsInitialized(m)
                  /\ method.code # OatCodeOffset(r.code_offset) =>
                       method.code = StaticResolutionStub

\* the planning pass in image mode has visited a static method that keeps the
\* trampoline and a static constructor with compiled code that got its code offset
C15_Witness ==
  /\ is_image /\ Built
  /\ \E m \in MethodIdxs : methods[m].code = StaticResolutionStub
  /\ \E m \in MethodIdxs :
       /\ IsStatic(m) /\ IsConstructor(m)
       /\ UsesOfMethod(m) # {}
       /\ UseRecord(LastUse(m)).code_offset # 0
       /\ methods[m].code = OatCodeOffset(UseRecord(LastUse(m)).code_offset)

\* ------------------------------------------------------------------------
\* C16
\* ------------------------------------------------------------------------

\* Write has been called and has not returned
Writing == pc \in {"Write", "WriteCode", "WriteCodeDexFiles"}

\* C16: no step of Write, whether it goes on, returns true or returns false,
\* changes the header with its executable offset and checksum, an OatDexFile
\* or OatClass record, the padding length or a deduplication table.
C16_WriteLeavesPlan == [][Writing => UNCHANGED <<records, tables>>]_vars

\* Write has returned false in the code section, with records and
\* deduplication tables filled by the planning pass
C16_Witness ==
  /\ pc = "Failed"
  /\ DOMAIN code_offsets # {}
  /\ DOMAIN gc_map_offsets # {}
  /\ Emitted("code_size") # {}
  /\ executable_offset_padding_length > 0

\* ------------------------------------------------------------------------
\* C17
\* ------------------------------------------------------------------------

TablesEnd ==
  Max({p.val[1] + p.len :
         p \in {q \in Range(plan) : q.kind \in {"OatDexFile", "DexFile", "OatClass"}}}
      \cup {SizeOfOatHeader + image_file_location_size})

\* InitOatCode has returned
BehindInitOatCode ==
  pc \notin {"InitOatHeader", "InitOatDexFiles", "InitDexFiles", "InitOatClasses", "InitOatCode"}

\* C18: the executable offset is the cursor behind the last OatClass rounded
\* up to the page size and the padding length is their difference; Write
\* stands at that cursor before WriteCode and at the executable offset behind
\* it.  Without DEX files and image location the executable offset is the
\* rounded-up header size and Write emits the header only; with one DEX file
\* holding one class without class data it is the rounded-up end of that
\* OatClass and no code is emitted.
C18_ExecutableOffsetAndPadding ==
  /\ BehindInitOatCode =>
       /\ oat_header.executable_offset % kPageSize = 0
       /\ oat_header.executable_offset >= TablesEnd
       /\ oat_header.executable_offset - TablesEnd < kPageSize
       /\ executable_offset_padding_length = oat_header.executable_offset - TablesEnd
       /\ dex_files = <<>> /\ image_file_location_size = 0 =>
            /\ TablesEnd = SizeOfOatHeader
            /\ oat_header.executable_offset = kPageSize
       /\ Len(dex_files) = 1 /\ Len(oat_classes) = 1 /\ ~dex_files[1].class_defs[1].has_data =>
            TablesEnd = oat_dex_files[1].methods_offsets[1] + SizeOfU32
  /\ pc = "WriteCode" => out.pos = TablesEnd
  /\ BehindWriteCode => out.pos = oat_header.executable_offset
  /\ WriteSucceeded /\ dex_files = <<>> /\ image_file_location_size = 0 =>
       \A e \in Range(out.log) : e.len > 0 => e.kind = "oat_header"
  /\ WriteSucceeded /\ Len(dex_files) = 1 /\ Len(oat_classes) = 1
       /\ ~dex_files[1].class_defs[1].has_data =>
       \A e \in Range(out.log) : e.kind \notin BlobKinds \cup {"code_size", "invoke_stub_size"}

\* Write stands behind WriteCode's seek, behind an image location and the
\* records of a DEX file with classes
C18_Witness ==
  /\ BehindWriteCode
  /\ image_file_location_size > 0
  /\ Len(oat_classes) >= 2
  /\ executable_offset_padding_length > 0
  /\ out.pos = TablesEnd + executable_offset_padding_length

\* ------------------------------------------------------------------------
\* C19
\* ------------------------------------------------------------------------

\* C19: once the planning pass is complete, every offset it stored (the
\* dex_file_offset and the methods_offsets entries of every OatDexFile, the
\* executable offset, and the code, mapping table, vmap table, GC map and
\* invoke stub offset of every method record) is at most its final offset.
C19_StoredOffsetsWithinFinalOffset ==
  Built =>
    /\ \A d \in DOMAIN oat_dex_files :
         /\ oat_dex_files[d].dex_file_offset <= offset
         /\ \A c \in DOMAIN oat_dex_files[d].methods_offsets :
              oat_dex_files[d].methods_offsets[c] <= offset
    /\ oat_header.executable_offset <= offset
    /\ \A u \in Uses : \A kind \in BlobKinds : Recorded(u, kind) <= offset

\* the last method visited has a stub of its own, whose recorded offset
\* carries a code delta, and the planning pass is complete
C19_Witness ==
  /\ Built
  /\ \E u \in Uses :
       /\ \A v \in Uses : v = u \/ Before(v, u)
       /\ UseInvokeStub(u) # NULL
       /\ UseInvokeStub(u).code_delta > 0
       /\ FirstUse(u, "invoke_stub") = u
       /\ Recorded(u, "invoke_stub") > oat_header.executable_offset
       /\ \E p \in Range(plan) :
            /\ p.kind = "invoke_stub" /\ p.at = u
            /\ offset = p.val[1] + p.len

\* ------------------------------------------------------------------------
\* C20
\* ------------------------------------------------------------------------

\* the place of a position in the call sequence of Create
PhaseRank(p) ==
  CASE p = "InitOatHeader" -> 1
    [] p = "InitOatDexFiles" -> 2
    [] p = "InitDexFiles" -> 3
    [] p = "InitOatClasses" -> 4
    [] p = "InitOatCode" -> 5
    [] p = "InitOatCodeDexFiles" -> 6
    [] p = "Write" -> 7
    [] p = "WriteCode" -> 8
    [] p = "WriteCodeDexFiles" -> 9
    [] p \in {"Done", "Failed"} -> 10

Returned == pc \in {"Done", "Failed"}

\* all six phases of the planning pass have done their work
PassFComplete ==
  /\ Len(oat_dex_files) = Len(dex_files)
  /\ Len(oat_classes) = Len(AllClassDefs)
  /\ \E p \in Range(plan) : p.kind = "executable"
  /\ \A u \in Uses : \E p \in Range(plan) : p.kind = "method_end" /\ p.at = u

C20_Step ==
  /\ PhaseRank(pc') >= PhaseRank(pc)
  /\ Returned => UNCHANGED vars
  /\ (pc' = "Write" /\ pc # "Write") =>
       /\ pc = "InitOatCodeDexFiles"
       /\ AtDexFilesEnd
       /\ PassFComplete
  /\ (pc = "Write" /\ pc' # "Write") => pc' \in {"WriteCode", "Failed"}
  /\ (pc' \in {"Done", "Failed"} /\ pc' # pc) => Writing
  /\ out' # out => Writing
  /\ <<records, tables, methods>>' # <<records, tables, methods>> => ~Built

\* C20: through Create the writer goes from built over writing to done or
\* failed and never back: Write is entered once, only from the end of the
\* last phase of the planning pass with all six phases complete and the
\* constructor's check passed; the stream is operated on only while Write
\* runs; records and tables change only before Write; and once Write has
\* returned nothing changes any more.
C20_Lifecycle == [][C20_Step]_vars

\* Write has returned true on a stream with a failure scheduled behind its
\* last operation, after emitting code planned by a complete planning pass
C20_Witness ==
  /\ pc = "Done"
  /\ fail_at > out.ops
  /\ PassFComplete
  /\ Emitted("code") # {}
  /\ Emitted("invoke_stub") # {}

\* ------------------------------------------------------------------------
\* C21
\* ------------------------------------------------------------------------

\* the method at u is the first to bring its blob of a kind
IsNew(u, kind) == UseBlob(u, kind) # NULL /\ FirstUse(u, kind) = u

\* the cursor behind InitOatCodeMethod for the method at u, and before it
MethodEnd(u) ==
  (CHOOSE p \in Range(plan) : p.kind = "method_end" /\ p.at = u).val[1]
CursorBefore(u) ==
  LET earlier_uses == {v \in Uses : Before(v, u)}
  IN  IF earlier_uses = {} THEN oat_header.executable_offset
      ELSE MethodEnd(CHOOSE v \in earlier_uses : \A w \in earlier_uses : w = v \/ Before(w, v))

\* the cursor c carried over the blob of a kind of the method at u: code and
\* stubs are aligned first; only a new blob is stepped over
SizePrefix(kind) == IF kind \in CodeKinds THEN SizeOfU32 ELSE 0
Advance(u, kind, c) ==
  LET a == IF kind \in CodeKinds THEN AlignCode(c) ELSE c
  IN  IF UseBlob(u, kind) = NULL THEN c
      ELSE IF IsNew(u, kind) THEN a + SizePrefix(kind) + UseBlob(u, kind).size
      ELSE a
ExpectedEnd(u) ==
  Advance(u, "invoke_stub",
    Advance(u, "gc_map",
      Advance(u, "vmap_table",
        Advance(u, "mapping_table",
          Advance(u, "code", CursorBefore(u))))))

\* what was folded into the checksum for the blob of a kind of the method at u
FoldsAt(u, kind) ==
  {k \in DOMAIN oat_header.adler32_checksum :
     /\ oat_header.adler32_checksum[k].kind = kind
     /\ oat_header.adler32_checksum[k].at = u}
PlacedAt(u, kind) == {p \in Range(plan) : p.kind = kind /\ p.at = u}

\* C21: a method whose blob is already interned takes the stored offset, and
\* neither is the cursor advanced over the blob nor anything folded for it; a
\* new blob is inserted at its tentative offset, the cursor advances by its
\* size (plus 4 for code and stubs) and its payload alone is folded.  What a
\* table maps a blob to is what was inserted at the blob's first use, at
\* every later point of the planning pass and of Write.
C21_Interning ==
  /\ \A p \in Range(plan) :
       p.kind \in BlobKinds =>
         /\ p.idx \in DOMAIN TableOf(p.kind)
         /\ TableOf(p.kind)[p.idx] =
              InternedOffset(p.kind, UseBlob(p.at, p.kind), p.val[1], UseDelta(p.at, p.kind))
  /\ \A kind \in BlobKinds :
       \A id \in DOMAIN TableOf(kind) :
         \E p \in Range(plan) : p.kind \in BlobKinds /\ TableOf(p.kind) = TableOf(kind) /\ p.idx = id
  /\ Built =>
       \A u \in Uses :
         /\ MethodEnd(u) = ExpectedEnd(u)
         /\ \A kind \in BlobKinds :
              UseBlob(u, kind) # NULL =>
                IF IsNew(u, kind)
                THEN /\ Cardinality(FoldsAt(u, kind)) = 1
                     /\ \A k \in FoldsAt(u, kind) :
                          /\ oat_header.adler32_checksum[k].len = UseBlob(u, kind).size
                          /\ oat_header.adler32_checksum[k].idx = UseBlob(u, kind).id
                     /\ \E p \in PlacedAt(u, kind) :
                          /\ p.len = SizePrefix(kind) + UseBlob(u, kind).size
                          /\ Recorded(u, kind) =
                               InternedOffset(kind, UseBlob(u, kind), p.val[1], UseDelta(u, kind))
                ELSE /\ FoldsAt(u, kind) = {}
                     /\ PlacedAt(u, kind) = {}
                     /\ Recorded(u, kind) = TableOf(kind)[UseBlob(u, kind).id]

\* behind the planning pass, a method shares a non-empty mapping table with an
\* earlier method and brings a GC map of its own
C21_Witness ==
  /\ Built
  /\ \E u \in Uses :
       /\ UseBlob(u, "mapping_table") # NULL
       /\ UseBlob(u, "mapping_table").size > 0
       /\ ~IsNew(u, "mapping_table")
       /\ IsNew(u, "gc_map")
       /\ UseBlob(u, "gc_map").size > 0

\* ------------------------------------------------------------------------
\* C22
\* ------------------------------------------------------------------------

\* the compiled methods' uses of an empty table of a kind
EmptyTableUses(kind) ==
  {u \in Uses : UseBlob(u, kind) # NULL /\ UseBlob(u, kind).size = 0}

\* C22: a compiled method's empty mapping table, vmap table or GC map is
\* recorded as offset 0, at its first use and at a later one, and Write makes
\* no stream operation for it: no bytes are emitted and the position stays.
C22_EmptyTables ==
  \A kind \in TableKinds :
    \A u \in EmptyTableUses(kind) :
      /\ Built => Recorded(u, kind) = 0
      /\ \A e \in Emitted(kind) : e.at # u

\* Write has returned true after a method whose empty vmap table was already
\* interned by an earlier use, and which has a mapping table that is emitted
C22_Witness ==
  /\ WriteSucceeded
  /\ \E u \in EmptyTableUses("vmap_table") :
       /\ ~IsNew(u, "vmap_table")
       /\ Recorded(u, "code") # 0
  /\ Emitted("mapping_table") # {}

\* ------------------------------------------------------------------------
\* C23
\* ------------------------------------------------------------------------

\* the planning pass placed its items one behind the other, at or below the cursor
PlanForward ==
  /\ \A k \in 1 .. (Len(plan) - 1) : plan[k].val[1] + plan[k].len <= plan[k + 1].val[1]
  /\ \A k \in DOMAIN plan : plan[k].val[1] + plan[k].len <= offset

\* no seek of Write went backwards, and each WriteFully started at or behind
\* the end of the one before it
StreamForward ==
  /\ \A k \in DOMAIN out.seeks : out.seeks[k].to >= out.seeks[k].from
  /\ \A k \in 1 .. (Len(out.log) - 1) :
       out.log[k].pos + out.log[k].len <= out.log[k + 1].pos
  /\ \A j, k \in DOMAIN out.log :
       j # k /\ out.log[j].len > 0 /\ out.log[k].len > 0 => ~Overlap(out.log[j], out.log[k])

C23_Step ==
  /\ offset' >= offset
  /\ out'.pos >= out.pos
  /\ PlanForward'
  /\ StreamForward'

\* C23: the cursor of the planning pass never decreases, within a phase and
\* from phase to phase; in Write the stream position never moves backwards:
\* every seek, the absolute seek to dex_file_offset included, targets a
\* position at or behind the current one, and no two WriteFully calls cover
\* overlapping byte ranges.
C23_Forward == [][C23_Step]_vars

\* Write has returned true after absolute seeks to two DEX payloads, the
\* second of which moved the position, and the relative seek of WriteCode
C23_Witness ==
  /\ WriteSucceeded
  /\ Len(dex_files) = 2
  /\ Len(out.seeks) >= 3
  /\ out.seeks[2].to > out.seeks[2].from
  /\ out.seeks[3].to = oat_header.executable_offset
  /\ Len(oat_classes) >= 1

\* ------------------------------------------------------------------------
\* C24
\* ------------------------------------------------------------------------

Compiled == {u \in Uses : UseCompiledMethod(u) # NULL}

\* the first compiled method of the file, when its code_delta is 0 and its
\* three tables are empty
PlainFirstCompiled ==
  {u \in Compiled :
     /\ \A v \in Compiled : v = u \/ Before(u, v)
     /\ UseDelta(u, "code") = 0
     /\ \A kind \in TableKinds : UseBlob(u, kind).size = 0}

\* new code is recorded at the aligned cursor plus 4 plus code_delta, and
\* Write puts the size prefix at the aligned cursor and the payload 4 behind
NewCodePlacedAndWritten ==
  \A u \in Uses :
    IsNew(u, "code") =>
      LET a == AlignCode(CursorBefore(u))
      IN  /\ Built => Recorded(u, "code") = a + SizeOfU32 + UseDelta(u, "code")
          /\ WriteSucceeded =>
               /\ \E e \in Emitted("code_size") :
                    e.at = u /\ e.pos = a /\ e.len = SizeOfU32
                    /\ e.val = <<UseBlob(u, "code").size>>
               /\ \E e \in Emitted("code") :
                    e.at = u /\ e.pos = a + SizeOfU32 /\ e.len = UseBlob(u, "code").size
               /\ \A e \in Emitted("code") \cup Emitted("code_size") :
                    e.idx = UseBlob(u, "code").id => e.at = u

\* C24 as claimed: new code is recorded at the aligned cursor plus 4 plus
\* code_delta and written at the aligned cursor; the first compiled method of
\* the file, with code_delta 0 and no tables, has code_offset =
\* executable_offset + 4 and table offsets 0.
C24_Original ==
  /\ NewCodePlacedAndWritten
  /\ Built =>
       \A u \in PlainFirstCompiled :
         /\ Recorded(u, "code") = oat_header.executable_offset + SizeOfU32
         /\ \A kind \in TableKinds : Recorded(u, kind) = 0

\* C24: new code is recorded at the aligned cursor plus 4 plus code_delta,
\* while Write puts its size prefix at the aligned cursor and its payload 4
\* bytes behind, whatever the code_delta; the first compiled method of the
\* file, with code_delta 0 and no tables, has table offsets 0, and
\* code_offset = executable_offset + 4 when no method before it has an invoke
\* stub.
C24_CodeOffsetAndBytes ==
  /\ NewCodePlacedAndWritten
  /\ Built =>
       \A u \in PlainFirstCompiled :
         /\ (\A v \in Uses : Before(v, u) => UseInvokeStub(v) = NULL) =>
              Recorded(u, "code") = oat_header.executable_offset + SizeOfU32
         /\ \A kind \in TableKinds : Recorded(u, kind) = 0

\* Write has returned true; the first compiled method has code_delta 0 and no
\* tables, and a later method brings new code with code_delta 1
C24_Witness ==
  /\ WriteSucceeded
  /\ \E u \in PlainFirstCompiled :
       /\ Recorded(u, "code") = oat_header.executable_offset + SizeOfU32
       /\ \E v \in Uses :
            /\ Before(u, v)
            /\ IsNew(v, "code")
            /\ UseDelta(v, "code") = 1
            /\ Recorded(v, "code") = AlignCode(CursorBefore(v)) + SizeOfU32 + 1

\* ------------------------------------------------------------------------
\* C25
\* ------------------------------------------------------------------------

\* the ranges of a sequence that belong to record idx and are of the kinds
RECURSIVE OfRecord(_, _, _)
OfRecord(seq, kinds, idx) ==
  IF seq = <<>> THEN <<>>
  ELSE (IF Head(seq).kind \in kinds /\ Head(seq).idx = idx THEN <<Head(seq)>> ELSE <<>>)
         \o OfRecord(Tail(seq), kinds, idx)

RECURSIVE SumLen(_)
SumLen(seq) == IF seq = <<>> THEN 0 ELSE Head(seq).len + SumLen(Tail(seq))

KindsOf(seq) == [k \in DOMAIN seq |-> seq[k].kind]
LensOf(seq) == [k \in DOMAIN seq |-> seq[k].len]

OatDexFileFieldOrder ==
  <<"dex_file_location_size", "dex_file_location_data", "dex_file_location_checksum",
    "dex_file_offset", "methods_offsets">>
OatClassFieldOrder == <<"status", "method_offsets">>

\* what Write emitted and what UpdateChecksum folded for a record
EmittedFor(kinds, idx) == OfRecord(out.log, kinds, idx)
FoldedFor(kinds, idx) == OfRecord(oat_header.adler32_checksum, kinds, idx)

\* WriteTables has returned true
BehindWriteTables == pc \in {"WriteCode", "WriteCodeDexFiles", "Done"}

\* C25: the SizeOf of every OatDexFile and of every OatClass is the number of
\* bytes its UpdateChecksum folded and, once WriteTables has succeeded, the
\* number of bytes its Write emitted, and both went through the same fields
\* in the same order: location length, location bytes, location checksum,
\* dex offset and per-class offsets for an OatDexFile, status and method
\* offsets for an OatClass.
C25_SizeOfIsWrittenAndFolded ==
  /\ Built =>
       /\ \A k \in DOMAIN oat_dex_files :
            LET f == FoldedFor(OatDexFileKinds, k - 1)
            IN  /\ SumLen(f) = OatDexFileSizeOf(oat_dex_files[k])
                /\ KindsOf(f) = OatDexFileFieldOrder
       /\ \A k \in DOMAIN oat_classes :
            LET f == FoldedFor(OatClassKinds, k - 1)
            IN  /\ SumLen(f) = OatClassSizeOf(oat_classes[k])
                /\ KindsOf(f) = OatClassFieldOrder
  /\ BehindWriteTables =>
       /\ \A k \in DOMAIN oat_dex_files :
            LET e == EmittedFor(OatDexFileKinds, k - 1)
                f == FoldedFor(OatDexFileKinds, k - 1)
            IN  /\ SumLen(e) = OatDexFileSizeOf(oat_dex_files[k])
                /\ KindsOf(e) = OatDexFileFieldOrder
                /\ LensOf(e) = LensOf(f)
                /\ \A j \in 1 .. (Len(e) - 1) : e[j].pos + e[j].len = e[j + 1].pos
       /\ \A k \in DOMAIN oat_classes :
            LET e == EmittedFor(OatClassKinds, k - 1)
                f == FoldedFor(OatClassKinds, k - 1)
            IN  /\ SumLen(e) = OatClassSizeOf(oat_classes[k])
                /\ KindsOf(e) = OatClassFieldOrder
                /\ LensOf(e) = LensOf(f)
                /\ \A j \in 1 .. (Len(e) - 1) : e[j].pos + e[j].len = e[j + 1].pos

\* Write has returned true for two DEX files with locations of different
\* length, one without classes, one with a class that has methods
C25_Witness ==
  /\ WriteSucceeded
  /\ Len(oat_dex_files) = 2
  /\ oat_dex_files[1].dex_file_location_size # oat_dex_files[2].dex_file_location_size
  /\ \E k \in DOMAIN oat_dex_files : oat_dex_files[k].methods_offsets = <<>>
  /\ \E k \in DOMAIN oat_classes : Len(oat_classes[k].method_offsets) > 0

\* ------------------------------------------------------------------------
\* C26
\* ------------------------------------------------------------------------

\* the uses of a blob of a kind that has bytes
PayloadUses(kind) == {u \in Uses : UseBlob(u, kind) # NULL /\ UseBlob(u, kind).size > 0}

\* the folds and the emissions of the payload of blob id of a kind
FoldsOfBlob(kind, id) ==
  {k \in DOMAIN oat_header.adler32_checksum :
     oat_header.adler32_checksum[k].kind = kind /\ oat_header.adler32_checksum[k].idx = id}
EmissionsOfBlob(kind, id) ==
  {k \in DOMAIN out.log : out.log[k].kind = kind /\ out.log[k].idx = id}

\* C26: the payload of a blob is folded into the checksum by the planning
\* pass exactly once, at the blob's first use and in its full size, and is
\* emitted by a successful Write exactly once, at that same use and in that
\* size; at a deduplicated later use it is neither folded nor emitted; the
\* size prefixes of code and stubs are emitted and never folded.
C26_ChecksumCoversStoredPayloads ==
  /\ Built => \A f \in Folded : f.kind \notin {"code_size", "invoke_stub_size"}
  /\ Built =>
       \A kind \in BlobKinds : \A u \in PayloadUses(kind) :
         LET blob == UseBlob(u, kind)
         IN  /\ Cardinality(FoldsOfBlob(kind, blob.id)) = 1
             /\ \A k \in FoldsOfBlob(kind, blob.id) :
                  /\ oat_header.adler32_checksum[k].len = blob.size
                  /\ oat_header.adler32_checksum[k].at = FirstUse(u, kind)
  /\ WriteSucceeded =>
       \A kind \in BlobKinds : \A u \in PayloadUses(kind) :
         LET blob == UseBlob(u, kind)
         IN  /\ Cardinality(EmissionsOfBlob(kind, blob.id)) = 1
             /\ \A k \in EmissionsOfBlob(kind, blob.id) :
                  /\ out.log[k].len = blob.size
                  /\ out.log[k].at = FirstUse(u, kind)
             /\ kind \in CodeKinds =>
                  /\ Cardinality(EmissionsOfBlob(SizeKind(kind), blob.id)) = 1
                  /\ \A k \in EmissionsOfBlob(SizeKind(kind), blob.id) :
                       /\ out.log[k].len = SizeOfU32
                       /\ out.log[k].at = FirstUse(u, kind)
  /\ WriteSucceeded =>
       \A e \in Range(out.log) :
         e.kind \in BlobKinds /\ e.len > 0 =>
           \E f \in Folded : f.kind = e.kind /\ f.idx = e.idx /\ f.len = e.len /\ f.at = e.at

\* Write has returned true after a method that shares its GC map and its vmap
\* table with an earlier method and brings code of its own
C26_Witness ==
  /\ WriteSucceeded
  /\ \E u \in PayloadUses("gc_map") :
       /\ ~IsNew(u, "gc_map")
       /\ u \in PayloadUses("vmap_table")
       /\ ~IsNew(u, "vmap_table")
       /\ IsNew(u, "code")
       /\ Cardinality(EmissionsOfBlob("code_size", UseBlob(u, "code").id)) = 1

\* ------------------------------------------------------------------------
\* C27
\* ------------------------------------------------------------------------

\* the contents of the ranges of a record
ValsOf(seq) == [k \in DOMAIN seq |-> seq[k].val]

OatDexFileVals(r) ==
  <<<<r.dex_file_location_size>>, <<r.dex_file_location_data>>,
    <<r.dex_file_location_checksum>>, <<r.dex_file_offset>>, r.methods_offsets>>
OatClassVals(r) == <<<<r.status>>, Flatten(r.method_offsets)>>

OatDexFileIsFolded(k) == FoldedFor(OatDexFileKinds, k - 1) # <<>>
OatClassIsFolded(k) == FoldedFor(OatClassKinds, k - 1) # <<>>

\* InitOatCodeMethod has populated every slot of OatClass k
SlotsPopulated(k) ==
  \A m \in DOMAIN oat_classes[k].method_offsets :
    \E p \in Range(plan) : p.kind = "method_end" /\ p.at = <<k - 1, m - 1>>

\* what was folded for a folded record is what the record holds, all of it
\* set, and what WriteTables emitted for it
FoldedAsHeldAndWritten ==
  /\ \A k \in DOMAIN oat_dex_files :
       OatDexFileIsFolded(k) =>
         /\ ValsOf(FoldedFor(OatDexFileKinds, k - 1)) = OatDexFileVals(oat_dex_files[k])
         /\ oat_dex_files[k].dex_file_offset # 0
         /\ \A c \in DOMAIN oat_dex_files[k].methods_offsets :
              oat_dex_files[k].methods_offsets[c] # 0
         /\ BehindWriteTables =>
              ValsOf(EmittedFor(OatDexFileKinds, k - 1)) =
                ValsOf(FoldedFor(OatDexFileKinds, k - 1))
  /\ \A k \in DOMAIN oat_classes :
       OatClassIsFolded(k) =>
         /\ ValsOf(FoldedFor(OatClassKinds, k - 1)) = OatClassVals(oat_classes[k])
         /\ SlotsPopulated(k)
         /\ BehindWriteTables =>
              ValsOf(EmittedFor(OatClassKinds, k - 1)) =
                ValsOf(FoldedFor(OatClassKinds, k - 1))
  /\ Built =>
       /\ \A k \in DOMAIN oat_dex_files : OatDexFileIsFolded(k)
       /\ \A k \in DOMAIN oat_classes : OatClassIsFolded(k)

C27_Step ==
  /\ pc # "InitOatHeader" =>
       /\ \A k \in DOMAIN oat_dex_files :
            OatDexFileIsFolded(k) => oat_dex_files'[k] = oat_dex_files[k]
       /\ \A k \in DOMAIN oat_classes :
            OatClassIsFolded(k) => oat_classes'[k] = oat_classes[k]
  /\ FoldedAsHeldAndWritten'

\* C27: no step changes a record that has been folded into the checksum;
\* an OatDexFile is folded once, with its dex_file_offset and all its
\* methods_offsets set, an OatClass is folded once, with every slot populated
\* by InitOatCodeMethod (none for a class without class data); what was
\* folded for a record is what the record holds from then on and what
\* WriteTables writes for it.
C27_FoldedRecordsAreFinal == [][C27_Step]_vars

\* the planning pass stands between two classes of a DEX file: the first,
\* with a method, is folded; the second, without class data, is not yet
C27_Witness ==
  /\ pc = "InitOatCodeDexFiles"
  /\ Len(oat_classes) = 2
  /\ OatClassIsFolded(1)
  /\ ~OatClassIsFolded(2)
  /\ Len(oat_classes[1].method_offsets) > 0
  /\ oat_classes[1].method_offsets[1].invoke_stub_offset # 0
  /\ \A k \in DOMAIN oat_dex_files : OatDexFileIsFolded(k)

\* ------------------------------------------------------------------------
\* C28
\* ------------------------------------------------------------------------

\* the calls of InitOatCodeMethod and of WriteCodeMethod, in order
CallsOf(callee) == SelectSeq(visits, LAMBDA v : v.callee = callee)

\* the method of slot u[2] of class u[1]: the direct methods, then the virtual ones
SlotMethod(u) ==
  LET class_def == UseClassDef(u)
      num_direct == Len(class_def.direct)
  IN  IF u[2] < num_direct THEN class_def.direct[u[2] + 1]
      ELSE class_def.virtual[u[2] - num_direct + 1]

\* C28: the planning pass calls InitOatCodeMethod once for every slot of
\* every class with class data, in the order of the slots, direct methods
\* first, and the record it stores is the one the slot holds afterwards;
\* Write calls WriteCodeMethod for the same slots in the same order, with the
\* same method, the same (is_static, shorty) and the record the planning
\* pass stored.
C28_SameMethodsAtSameSlots ==
  Built =>
    LET f == CallsOf("InitOatCodeMethod")
        g == CallsOf("WriteCodeMethod")
    IN  /\ Len(f) = Cardinality(Uses)
        /\ \A j, k \in DOMAIN f : j < k => Before(f[j].at, f[k].at)
        /\ \A k \in DOMAIN f :
             /\ f[k].at \in Uses
             /\ f[k].method_idx = SlotMethod(f[k].at)
             /\ f[k].method_offsets = UseRecord(f[k].at)
        /\ Len(g) <= Len(f)
        /\ \A k \in DOMAIN g :
             /\ g[k].at = f[k].at
             /\ g[k].method_idx = f[k].method_idx
             /\ GetCompiledMethod(g[k].method_idx) = GetCompiledMethod(f[k].method_idx)
             /\ g[k].key = f[k].key
             /\ g[k].method_offsets = f[k].method_offsets
        /\ WriteSucceeded => Len(g) = Len(f)

\* Write has returned true for a class with a static direct method and a
\* virtual method, both compiled
C28_Witness ==
  /\ WriteSucceeded
  /\ \E u, v \in Uses :
       /\ u[1] = v[1]
       /\ u[2] = 0 /\ v[2] = 1
       /\ UseIsStatic(u)
       /\ v[2] >= NumDirectMethods(UseClassDef(v))
       /\ UseCompiledMethod(u) # NULL /\ UseCompiledMethod(v) # NULL
  /\ Len(CallsOf("WriteCodeMethod")) = 2

\* ------------------------------------------------------------------------
\* C29
\* ------------------------------------------------------------------------

\* the methods for which the compiler has an invoke stub
WithStub == {u \in Uses : UseInvokeStub(u) # NULL}

\* the cursor at which the stub of the method at u is aligned: behind the
\* method's code and tables, if it has any
StubCursor(u) ==
  Advance(u, "gc_map",
    Advance(u, "vmap_table",
      Advance(u, "mapping_table",
        Advance(u, "code", CursorBefore(u)))))

\* the positions in the stream's log at which something of a kind was
\* emitted for the method at u
EmittedAt(kind, u) == {k \in DOMAIN out.log : out.log[k].kind = kind /\ out.log[k].at = u}

\* C29: a method for which the compiler has an invoke stub records a
\* non-zero invoke_stub_offset, with or without a compiled method: at the
\* stub's first use the aligned cursor plus 4 plus the stub's code_delta,
\* interned in the table of the method code, and at a later use that same
\* offset; a method without stub records 0.  A successful Write emits the
\* stub at its first use only, the size prefix at the aligned cursor and the
\* payload behind it.
C29_InvokeStubs ==
  /\ Built =>
       /\ \A u \in Uses \ WithStub : Recorded(u, "invoke_stub") = 0
       /\ \A u \in WithStub :
            LET first == FirstUse(u, "invoke_stub")
                stub == UseInvokeStub(u)
                a == AlignCode(StubCursor(first))
            IN  /\ Recorded(first, "invoke_stub") = a + SizeOfU32 + stub.code_delta
                /\ Recorded(u, "invoke_stub") = Recorded(first, "invoke_stub")
                /\ Recorded(u, "invoke_stub") # 0
                /\ stub.code.id \in DOMAIN code_offsets
                /\ code_offsets[stub.code.id] = Recorded(u, "invoke_stub")
                /\ \A kind \in TableKinds : stub.code.id \notin DOMAIN TableOf(kind)
  /\ WriteSucceeded =>
       \A u \in WithStub :
         LET a == AlignCode(StubCursor(u))
         IN  IF IsNew(u, "invoke_stub")
             THEN \E j \in EmittedAt("invoke_stub_size", u) :
                    \E k \in EmittedAt("invoke_stub", u) :
                      /\ EmittedAt("invoke_stub_size", u) = {j}
                      /\ EmittedAt("invoke_stub", u) = {k}
                      /\ k = j + 1
                      /\ out.log[j].pos = a /\ out.log[j].len = SizeOfU32
                      /\ out.log[j].val = <<UseInvokeStub(u).code.size>>
                      /\ out.log[k].pos = a + SizeOfU32
                      /\ out.log[k].len = UseInvokeStub(u).code.size
                      /\ out.log[k].idx = UseInvokeStub(u).code.id
             ELSE EmittedAt("invoke_stub_size", u) \cup EmittedAt("invoke_stub", u) = {}

\* Write has returned true; a method without compiled method brought an
\* invoke stub with a code_delta, and a compiled method behind it shares it
C29_Witness ==
  /\ WriteSucceeded
  /\ \E u, v \in WithStub :
       /\ Before(u, v)
       /\ UseCompiledMethod(u) = NULL
       /\ UseCompiledMethod(v) # NULL
       /\ IsNew(u, "invoke_stub")
       /\ FirstUse(v, "invoke_stub") = u
       /\ UseInvokeStub(u).code_delta > 0
       /\ Recorded(v, "invoke_stub") = oat_header.executable_offset + SizeOfU32 + 1

====
